---- MODULE Spec2Model ----
(***************************************************************************)
(* The APA 7 citation and reference engine of                             *)
(* backend/app/services/apa_service.py (class APA7Service).               *)
(*                                                                         *)
(* Python strings are TLA+ strings; a character is a string of length 1.  *)
(* An Optional value is None (the empty tuple) or Some(v) (a 1-tuple).    *)
(* A Python dict is the sequence of its <<key, value>> items in insertion *)
(* order; a reference dict read with dict.get is a record whose absent    *)
(* keys hold Missing.  Each engine operation is one action that applies   *)
(* the operation to inputs drawn by the initial state.  The last parts    *)
(* model repeated and concurrent calls of the engine and the Celery task   *)
(* export_document of backend/app/tasks/export_tasks.py.                   *)
(***************************************************************************)
EXTENDS Integers, Sequences, FiniteSets, TLC

VARIABLES
    pc,              \* "ready" before the call, "done" after it returned
    citations,       \* validate_coherence: the citation dicts passed in
    references,      \* validate_coherence: the reference dicts passed in
    validation,      \* validate_coherence: the dict it returned
    parsed_ref,      \* generate_citation: the parsed reference passed in
    citation_out,    \* generate_citation: the string it returned
    authors_in,      \* _format_author_list: the author list passed in
    author_list_out, \* _format_author_list: the string it returned
    reference_in,    \* generate_reference: the reference dict passed in
    today,           \* datetime.now().strftime("%B %d, %Y") at the call
    reference_out,   \* generate_reference: the string it returned
    list_refs,       \* generate_reference_list: the reference dicts passed in
    format_output,   \* generate_reference_list: the format string passed in
    list_out,        \* generate_reference_list: the string it returned
    raw_text,        \* parse_reference_text: the raw text passed in
    parsed,          \* parse_reference_text: the dict it returned
    rounds,          \* round trip: the number of parse-and-generate runs made
    previous_out,    \* round trip: the entry of the run before the last one
    caller_pc,       \* concurrent callers: "idle", "running" or "returned"
    caller_call,     \* concurrent callers: the operation and argument called
    caller_today,    \* concurrent callers: the date the call read
    caller_result,   \* concurrent callers: the value the call returned
    shared_inputs,   \* concurrent callers: the argument objects, by call
    instance_attrs,  \* concurrent callers: the attributes of apa7_service
    job,             \* export_document: the row of the export job
    job_id_valid,    \* export_document: job_id is the text of a UUID
    document_found,  \* export_document: the document of the job exists
    export_raises,   \* export_document: rendering or storage raises
    task             \* export_document: position, Celery state and result

referenceVars == <<reference_in, today, reference_out>>

listVars == <<list_refs, format_output, list_out>>

parseVars == <<raw_text, parsed>>

roundVars == <<rounds, previous_out>>

callerVars == <<caller_pc, caller_call, caller_today, caller_result,
                shared_inputs, instance_attrs>>

exportVars == <<job, job_id_valid, document_found, export_raises, task>>

otherVars == <<roundVars, callerVars, exportVars>>

vars == <<pc, citations, references, validation, parsed_ref, citation_out,
          authors_in, author_list_out, referenceVars, listVars, parseVars,
          otherVars>>

-----------------------------------------------------------------------------
(* Bounds of the model *)

MaxCitations == 2
MaxReferences == 2
MaxCitationAuthors == 6
MaxListAuthors == 8

-----------------------------------------------------------------------------
(* Python values *)

None == <<>>
Some(v) == <<v>>

\* Python truthiness of an Optional[str]: None and "" are falsy.
TruthyStr(o) == o # None /\ o[1] # ""

\* Python truthiness of an Optional[int]: None and 0 are falsy.
TruthyInt(o) == o # None /\ o[1] # 0

SeqsUpTo(S, n) == UNION {[1..m -> S] : m \in 0..n}

\* A key that a dict does not hold; it is neither None nor Some(v).
Missing == <<"KeyError", "KeyError">>

\* dict.get(key, default)
Get(d, key, default) == IF d[key] = Missing THEN default ELSE d[key]

\* A reference dict that holds none of the keys the formatters read.
NoFields ==
    [type |-> Missing, authors |-> Missing, year |-> Missing,
     title |-> Missing, publisher |-> Missing, location |-> Missing,
     source |-> Missing, journal |-> Missing, volume |-> Missing,
     issue |-> Missing, pages |-> Missing, doi |-> Missing,
     site_name |-> Missing, url |-> Missing, retrieved_date |-> Missing,
     chapter_title |-> Missing, editors |-> Missing, book_title |-> Missing]

\* parsed = { "authors": [], "year": None, ..., "type": "book", ... }
ParsedDefaults ==
    [authors |-> <<>>, year |-> None, title |-> None, source |-> None,
     type |-> "book", doi |-> None, url |-> None, publisher |-> None,
     volume |-> None, issue |-> None, pages |-> None]

\* The variables of the operations that a specification does not run.
IdleReference == reference_in = NoFields /\ today = "" /\ reference_out = ""

IdleList == list_refs = <<>> /\ format_output = "" /\ list_out = ""

IdleParse == raw_text = "" /\ parsed = ParsedDefaults

IdleRound == rounds = 0 /\ previous_out = None

IdleCallers ==
    /\ caller_pc = <<>> /\ caller_call = <<>> /\ caller_today = <<>>
    /\ caller_result = <<>> /\ shared_inputs = <<>> /\ instance_attrs = {}

IdleExport ==
    /\ job = None /\ job_id_valid = FALSE /\ document_found = FALSE
    /\ export_raises = FALSE /\ task = None

IdleOthers == IdleRound /\ IdleCallers /\ IdleExport

-----------------------------------------------------------------------------
(* Characters and str methods *)

Ch(s, i) == SubSeq(s, i, i)

UpperAlphabet == "ABCDEFGHIJKLMNOPQRSTUVWXYZ"
LowerAlphabet == "abcdefghijklmnopqrstuvwxyz"
DigitAlphabet == "0123456789"

UpperChars == {Ch(UpperAlphabet, i) : i \in 1..Len(UpperAlphabet)}
LowerChars == {Ch(LowerAlphabet, i) : i \in 1..Len(LowerAlphabet)}
DigitChars == {Ch(DigitAlphabet, i) : i \in 1..Len(DigitAlphabet)}

\* \s of the re module (ASCII part)
SpaceChars == {" ", "\t", "\n", "\r", "\f"}

\* \w of the re module (ASCII part): letters, digits and the underscore
WordChars == UpperChars \cup LowerChars \cup DigitChars \cup {"_"}

\* str.lower() on one character
LowerChar(c) ==
    IF c \in UpperChars
    THEN Ch(LowerAlphabet, CHOOSE i \in 1..Len(UpperAlphabet) : Ch(UpperAlphabet, i) = c)
    ELSE c

RECURSIVE Lower(_)
Lower(s) ==
    IF s = "" THEN "" ELSE LowerChar(Head(s)) \o Lower(Tail(s))

\* str.lstrip() / str.rstrip() / str.strip()
RECURSIVE LStrip(_)
LStrip(s) ==
    IF s # "" /\ Head(s) \in SpaceChars THEN LStrip(Tail(s)) ELSE s

RECURSIVE RStrip(_)
RStrip(s) ==
    IF s # "" /\ Ch(s, Len(s)) \in SpaceChars
    THEN RStrip(SubSeq(s, 1, Len(s) - 1))
    ELSE s

Strip(s) == RStrip(LStrip(s))

\* sep.join(parts)
RECURSIVE Join(_, _)
Join(sep, parts) ==
    IF parts = <<>> THEN ""
    ELSE IF Len(parts) = 1 THEN parts[1]
    ELSE parts[1] \o sep \o Join(sep, Tail(parts))

\* "c in s" for a character c
HasChar(s, c) == \E i \in 1..Len(s) : Ch(s, i) = c

\* s.split(c) for a one-character separator: empty fields are kept
RECURSIVE SplitOn(_, _)
SplitOn(s, c) ==
    IF ~HasChar(s, c) THEN <<s>>
    ELSE LET i == CHOOSE j \in 1..Len(s) :
                      Ch(s, j) = c /\ \A k \in 1..(j - 1) : Ch(s, k) # c
         IN  <<SubSeq(s, 1, i - 1)>> \o SplitOn(SubSeq(s, i + 1, Len(s)), c)

\* s.split(): split on runs of whitespace, no empty fields
RECURSIVE SplitWhitespace(_)
SplitWhitespace(s) ==
    LET t == LStrip(s) IN
    IF t = "" THEN <<>>
    ELSE IF \A j \in 1..Len(t) : Ch(t, j) \notin SpaceChars THEN <<t>>
    ELSE LET i == CHOOSE j \in 1..Len(t) :
                      Ch(t, j) \in SpaceChars
                      /\ \A k \in 1..(j - 1) : Ch(t, k) \notin SpaceChars
         IN  <<SubSeq(t, 1, i - 1)>> \o SplitWhitespace(SubSeq(t, i + 1, Len(t)))

\* str(n) / f"{n}" for an int
RECURSIVE NatStr(_)
NatStr(n) ==
    IF n < 10 THEN Ch(DigitAlphabet, n + 1)
    ELSE NatStr(n \div 10) \o Ch(DigitAlphabet, (n % 10) + 1)

IntStr(n) == IF n < 0 THEN "-" \o NatStr(0 - n) ELSE NatStr(n)

-----------------------------------------------------------------------------
(* dict: the sequence of its <<key, value>> items in insertion order *)

DictHas(d, k) == \E i \in 1..Len(d) : d[i][1] = k

DictGet(d, k) == d[CHOOSE i \in 1..Len(d) : d[i][1] = k][2]

\* d[k] = v on a list of items: the item is always appended
DictPut_append(d, k, v) == Append(d, <<k, v>>)

\* d.setdefault(k, v): an existing key keeps its value
DictPut_setdefault(d, k, v) ==
    IF DictHas(d, k) THEN d ELSE Append(d, <<k, v>>)

\* d[k] = v: an existing key keeps its position and takes the new value
DictPut(d, k, v) ==
    IF DictHas(d, k)
    THEN [i \in 1..Len(d) |-> IF d[i][1] = k THEN <<k, v>> ELSE d[i]]
    ELSE Append(d, <<k, v>>)

-----------------------------------------------------------------------------
(* APA7Service._normalize_author *)

\* re.sub(r'[^\w\s]', '', s)
RECURSIVE RemoveNonWordNonSpace(_)
RemoveNonWordNonSpace(s) ==
    IF s = "" THEN ""
    ELSE IF Head(s) \in WordChars \cup SpaceChars
         THEN Head(s) \o RemoveNonWordNonSpace(Tail(s))
         ELSE RemoveNonWordNonSpace(Tail(s))

\* re.sub(r'\s+', ' ', s)
RECURSIVE CollapseWhitespace(_)
CollapseWhitespace(s) ==
    IF s = "" THEN ""
    ELSE IF Head(s) \in SpaceChars
         THEN " " \o CollapseWhitespace(LStrip(s))
         ELSE Head(s) \o CollapseWhitespace(Tail(s))

_normalize_author(author) ==
    Strip(CollapseWhitespace(RemoveNonWordNonSpace(Lower(author))))

-----------------------------------------------------------------------------
(* APA7Service.validate_coherence *)

IssueText == "Authors or year mismatch between citation and reference"

\* the key map without its condition: a record without a key is stored
\* under "", the default of the first get
RECURSIVE KeyMap_unconditional(_, _)
KeyMap_unconditional(records, field) ==
    IF records = <<>> THEN <<>>
    ELSE LET front == SubSeq(records, 1, Len(records) - 1)
             last  == records[Len(records)]
             key   == Get(last, field, Some(""))
         IN  DictPut(KeyMap_unconditional(front, field),
                     IF key = None THEN "" ELSE key[1], last)

\* {c.get(field, ""): c for c in records if c.get(field)}
RECURSIVE KeyMap(_, _)
KeyMap(records, field) ==
    IF records = <<>> THEN <<>>
    ELSE LET front == SubSeq(records, 1, Len(records) - 1)
             last  == records[Len(records)]
         IN  IF TruthyStr(Get(last, field, None))
             THEN DictPut(KeyMap(front, field), last[field][1], last)
             ELSE KeyMap(front, field)

\* [self._normalize_author(a) for a in authors]
NormalizedAuthors(authors) ==
    [i \in 1..Len(authors) |-> _normalize_author(authors[i])]

\* the mismatch test, with "and" written for "or"
AuthorsOrYearMismatch_and(citation, reference) ==
    NormalizedAuthors(citation.parsed.authors)
        # NormalizedAuthors(reference.parsed.authors)
    /\ citation.parsed.year # reference.parsed.year

\* the mismatch test, comparing the author lists as given
AuthorsOrYearMismatch_raw(citation, reference) ==
    citation.parsed.authors # reference.parsed.authors
    \/ citation.parsed.year # reference.parsed.year

\* cit_authors_normalized != ref_authors_normalized or cit_year != ref_year
AuthorsOrYearMismatch(citation, reference) ==
    NormalizedAuthors(citation.parsed.authors)
        # NormalizedAuthors(reference.parsed.authors)
    \/ citation.parsed.year # reference.parsed.year

\* the first loop: citations without references
CitationsWithoutReference(citation_keys, reference_keys) ==
    LET NoReference(item) == ~DictHas(reference_keys, item[1])
        found == SelectSeq(citation_keys, NoReference)
    IN  [i \in 1..Len(found) |->
            [citation_key  |-> found[i][1],
             citation_text |-> found[i][2].citation_text]]

\* the second loop, testing the reference key against the reference keys
ReferencesWithoutCitations_self(citation_keys, reference_keys) ==
    LET NoCitation(item) == ~DictHas(reference_keys, item[1])
        found == SelectSeq(reference_keys, NoCitation)
    IN  [i \in 1..Len(found) |->
            [ref_key  |-> found[i][1],
             ref_text |-> found[i][2].ref_text]]

\* the second loop: references without citations
ReferencesWithoutCitations(citation_keys, reference_keys) ==
    LET NoCitation(item) == ~DictHas(citation_keys, item[1])
        found == SelectSeq(reference_keys, NoCitation)
    IN  [i \in 1..Len(found) |->
            [ref_key  |-> found[i][1],
             ref_text |-> found[i][2].ref_text]]

\* the third loop without the membership test of line 240: a citation key
\* without a reference is compared with its own record
ImperfectMatches_unmatched(citation_keys, reference_keys) ==
    LET Partner(item) ==
            IF DictHas(reference_keys, item[1])
            THEN DictGet(reference_keys, item[1]) ELSE item[2]
        Imperfect(item) ==
            ~DictHas(reference_keys, item[1])
            \/ AuthorsOrYearMismatch(item[2], Partner(item))
        found == SelectSeq(citation_keys, Imperfect)
    IN  [i \in 1..Len(found) |->
            [citation_key      |-> found[i][1],
             ref_key           |-> found[i][1],
             citation_authors  |-> found[i][2].parsed.authors,
             reference_authors |-> Partner(found[i]).parsed.authors,
             citation_year     |-> found[i][2].parsed.year,
             reference_year    |-> Partner(found[i]).parsed.year,
             issue             |-> IssueText]]

\* the third loop: imperfect matches
ImperfectMatches(citation_keys, reference_keys) ==
    LET Imperfect(item) ==
            DictHas(reference_keys, item[1])
            /\ AuthorsOrYearMismatch(item[2], DictGet(reference_keys, item[1]))
        found == SelectSeq(citation_keys, Imperfect)
    IN  [i \in 1..Len(found) |->
            LET citation  == found[i][2]
                reference == DictGet(reference_keys, found[i][1])
            IN  [citation_key      |-> found[i][1],
                 ref_key           |-> found[i][1],
                 citation_authors  |-> citation.parsed.authors,
                 reference_authors |-> reference.parsed.authors,
                 citation_year     |-> citation.parsed.year,
                 reference_year    |-> reference.parsed.year,
                 issue             |-> IssueText]]

validate_coherence(cits, refs) ==
    LET citation_keys  == KeyMap(cits, "citation_key")
        reference_keys == KeyMap(refs, "ref_key")
    IN  [citations_without_reference |->
             CitationsWithoutReference(citation_keys, reference_keys),
         references_without_citations |->
             ReferencesWithoutCitations(citation_keys, reference_keys),
         imperfect_matches |->
             ImperfectMatches(citation_keys, reference_keys)]

-----------------------------------------------------------------------------
(* The inputs of validate_coherence: the dicts the validation endpoint and *)
(* the validation task build from the stored citations and references.    *)

CitationKeys == {Some(""), Some("[Smith, 2020]"), Some("[Jones, 2019]")}

CitationPayloads ==
    {[text |-> "Smith (2020) states...",
      parsed |-> [authors |-> <<"Smith, J.">>, year |-> Some(2020)]],
     [text |-> "Smith and Jones (n.d.) argue...",
      parsed |-> [authors |-> <<"Smith, J.", "Jones, M.">>, year |-> None]]}

ReferencePayloads ==
    {[text |-> "SMITH  J (2020). Example book.",
      parsed |-> [authors |-> <<"SMITH  J">>, year |-> Some(2020)]],
     [text |-> "Smith, J., & Jones, M. (2020). Example book.",
      parsed |-> [authors |-> <<"Smith, J.", "Jones, M.">>, year |-> Some(2020)]]}

CitationDicts ==
    {[citation_key |-> k, citation_text |-> p.text, parsed |-> p.parsed] :
        k \in CitationKeys, p \in CitationPayloads}

ReferenceDicts ==
    {[ref_key |-> k, ref_text |-> p.text, parsed |-> p.parsed] :
        k \in CitationKeys, p \in ReferencePayloads}

NoValidation ==
    [citations_without_reference |-> <<>>,
     references_without_citations |-> <<>>,
     imperfect_matches |-> <<>>]

NoParsedRef == [authors |-> <<>>, year |-> None, citation_key |-> None]

InitCoherence ==
    /\ pc = "ready"
    /\ IdleReference /\ IdleList /\ IdleParse
    /\ IdleOthers
    /\ citations \in SeqsUpTo(CitationDicts, MaxCitations)
    /\ references \in SeqsUpTo(ReferenceDicts, MaxReferences)
    /\ validation = NoValidation
    /\ parsed_ref = NoParsedRef
    /\ citation_out = ""
    /\ authors_in = <<>>
    /\ author_list_out = ""

ValidateCoherence ==
    /\ pc = "ready"
    /\ validation' = validate_coherence(citations, references)
    /\ pc' = "done"
    /\ UNCHANGED otherVars
    /\ UNCHANGED <<referenceVars, listVars, parseVars>>
    /\ UNCHANGED <<citations, references, parsed_ref, citation_out,
                   authors_in, author_list_out>>

NextCoherence == ValidateCoherence

SpecCoherence == InitCoherence /\ [][NextCoherence]_vars

-----------------------------------------------------------------------------
(* Properties of validate_coherence, checked under SpecCoherence *)

\* the keys of the key map of an input list: its non-empty key values
KeysOf(records, field) ==
    {records[i][field][1] :
        i \in {j \in 1..Len(records) : records[j][field] \notin {None, Some("")}}}

\* the position of the last record of an input list that carries key k
LastIndex(records, field, k) ==
    CHOOSE i \in 1..Len(records) :
        /\ records[i][field] = Some(k)
        /\ \A j \in (i + 1)..Len(records) : records[j][field] # Some(k)

LastWith(records, field, k) == records[LastIndex(records, field, k)]

\* the positions of the findings of a result list that carry key k
FindingsFor(list, field, k) == {i \in 1..Len(list) : list[i][field] = k}

SharedKeys == KeysOf(citations, "citation_key") \cap KeysOf(references, "ref_key")

\* the two sides of a shared key differ in normalized authors or in year
Differ(k) ==
    LET c == LastWith(citations, "citation_key", k)
        r == LastWith(references, "ref_key", k)
    IN  \/ NormalizedAuthors(c.parsed.authors) # NormalizedAuthors(r.parsed.authors)
        \/ c.parsed.year # r.parsed.year

C3_OrphanLists ==
    pc = "done" =>
        LET ck  == KeysOf(citations, "citation_key")
            rk  == KeysOf(references, "ref_key")
            cwr == validation.citations_without_reference
            rwc == validation.references_without_citations
        IN  /\ \A k \in ck \ rk :
                /\ Cardinality(FindingsFor(cwr, "citation_key", k)) = 1
                /\ FindingsFor(rwc, "ref_key", k) = {}
            /\ \A k \in rk \ ck :
                /\ Cardinality(FindingsFor(rwc, "ref_key", k)) = 1
                /\ FindingsFor(cwr, "citation_key", k) = {}
            /\ \A k \in ck \cap rk :
                /\ FindingsFor(cwr, "citation_key", k) = {}
                /\ FindingsFor(rwc, "ref_key", k) = {}
            /\ \A i \in 1..Len(cwr) :
                /\ DOMAIN cwr[i] = {"citation_key", "citation_text"}
                /\ cwr[i].citation_key \in ck \ rk
                /\ \E j \in 1..Len(citations) :
                    /\ citations[j].citation_key = Some(cwr[i].citation_key)
                    /\ citations[j].citation_text = cwr[i].citation_text
            /\ \A i \in 1..Len(rwc) :
                /\ DOMAIN rwc[i] = {"ref_key", "ref_text"}
                /\ rwc[i].ref_key \in rk \ ck
                /\ \E j \in 1..Len(references) :
                    /\ references[j].ref_key = Some(rwc[i].ref_key)
                    /\ references[j].ref_text = rwc[i].ref_text

\* C3 witness: a call that found one citation key without reference and
\* one (other) reference key without citation.
C3_Witness ==
    /\ pc = "done"
    /\ Len(validation.citations_without_reference) = 1
    /\ Len(validation.references_without_citations) = 1
    /\ validation.citations_without_reference[1].citation_key
           # validation.references_without_citations[1].ref_key

\* the distinct key values carried by the records of an input list
DistinctKeyValues(records, field) == {records[i][field] : i \in 1..Len(records)}

\* C4 as claimed: with no citations, references_without_citations has as
\* many entries as there are distinct ref_key values among the references
\* and the other two lists are empty; symmetrically with no references.
C4_Original ==
    pc = "done" =>
        /\ citations = <<>> =>
            /\ Len(validation.references_without_citations)
                   = Cardinality(DistinctKeyValues(references, "ref_key"))
            /\ validation.citations_without_reference = <<>>
            /\ validation.imperfect_matches = <<>>
        /\ references = <<>> =>
            /\ Len(validation.citations_without_reference)
                   = Cardinality(DistinctKeyValues(citations, "citation_key"))
            /\ validation.references_without_citations = <<>>
            /\ validation.imperfect_matches = <<>>

\* C4 as amended: with no citations, references_without_citations has as
\* many entries as there are distinct non-empty ref_key values among the
\* references and the other two lists are empty; symmetrically with no
\* references and the distinct non-empty citation_key values.
C4_OneSidedInput ==
    pc = "done" =>
        /\ citations = <<>> =>
            /\ Len(validation.references_without_citations)
                   = Cardinality(DistinctKeyValues(references, "ref_key") \ {None, Some("")})
            /\ validation.citations_without_reference = <<>>
            /\ validation.imperfect_matches = <<>>
        /\ references = <<>> =>
            /\ Len(validation.citations_without_reference)
                   = Cardinality(DistinctKeyValues(citations, "citation_key") \ {None, Some("")})
            /\ validation.references_without_citations = <<>>
            /\ validation.imperfect_matches = <<>>

\* C4 witness: no citations and two references that share one non-empty
\* key have been validated, giving one orphan reference.
C4_Witness ==
    /\ pc = "done"
    /\ citations = <<>>
    /\ Len(references) = 2
    /\ references[1].ref_key = references[2].ref_key
    /\ Len(validation.references_without_citations) = 1

\* an input list in which every record that is followed by a record with
\* the same key has lost its text, its authors and its year
Blanked(records, field, text_field) ==
    [i \in 1..Len(records) |->
        IF \E j \in (i + 1)..Len(records) : records[j][field] = records[i][field]
        THEN [records[i] EXCEPT ![text_field] = "",
                                !.parsed = [authors |-> <<>>, year |-> None]]
        ELSE records[i]]

-----------------------------------------------------------------------------
(* APA7Service._format_author_name *)

\* f"{last}, {first[0]}." if len(first) == 1 else f"{last}, {first}"
LastFirst(last, first) ==
    IF Len(first) = 1 THEN last \o ", " \o Ch(first, 1) \o "."
    ELSE last \o ", " \o first

\* for_citation selects between two branches that hold the same expression
_format_author_name(name, for_citation) ==
    IF HasChar(name, ",")
    THEN LET split == SplitOn(name, ",")
             parts == [i \in 1..Len(split) |-> Strip(split[i])]
         IN  LastFirst(parts[1], parts[2])
    ELSE LET parts == SplitWhitespace(name)
         IN  IF Len(parts) >= 2
             THEN LastFirst(parts[Len(parts)],
                            Join(" ", SubSeq(parts, 1, Len(parts) - 1)))
             ELSE name

-----------------------------------------------------------------------------
(* APA7Service.generate_citation *)

\* the year of the f-strings: {year} if year else n.d.
YearOrNd(year) == IF TruthyInt(year) THEN IntStr(year[1]) ELSE "n.d."

\* [self._format_author_name(a, for_citation=True) for a in authors]
CitationNames(authors) ==
    [i \in 1..Len(authors) |-> _format_author_name(authors[i], TRUE)]

\* lines 39-40: neither authors nor year
CitationBare(citation_key) ==
    IF TruthyStr(citation_key) THEN citation_key[1] ELSE "(n.d.)"

\* lines 43-47: no authors
CitationNoAuthors(citation_key, year) ==
    IF TruthyStr(citation_key)
    THEN IF TruthyInt(year)
         THEN "(" \o citation_key[1] \o ", " \o IntStr(year[1]) \o ")"
         ELSE "(" \o citation_key[1] \o ", n.d.)"
    ELSE IF TruthyInt(year)
         THEN "(n.d., " \o IntStr(year[1]) \o ")"
         ELSE "(n.d.)"

\* the year put in without the test for a missing year
CitationOneAuthor_year(authors, year) ==
    "(" \o CitationNames(authors)[1] \o ", "
        \o (IF year = None THEN "None" ELSE IntStr(year[1])) \o ")"

\* lines 52-54: one author
CitationOneAuthor(authors, year) ==
    "(" \o CitationNames(authors)[1] \o ", " \o YearOrNd(year) \o ")"

\* lines 56-59: two authors
CitationTwoAuthors(authors, year) ==
    "(" \o CitationNames(authors)[1] \o " & " \o CitationNames(authors)[2]
        \o ", " \o YearOrNd(year) \o ")"

\* lines 61-65: every author listed
CitationAllAuthors(authors, year) ==
    LET author_list == CitationNames(authors)
        authors_str == Join(", ", SubSeq(author_list, 1, Len(author_list) - 1))
                           \o ", & " \o author_list[Len(author_list)]
    IN  "(" \o authors_str \o ", " \o YearOrNd(year) \o ")"

\* lines 67-70: first author et al.
CitationEtAl(authors, year) ==
    "(" \o CitationNames(authors)[1] \o " et al., " \o YearOrNd(year) \o ")"

\* the test of line 61 with the limit one too low
ListsAllAuthors_four(author_count) == author_count <= 4

\* elif author_count <= 5
ListsAllAuthors(author_count) == author_count <= 5

generate_citation(ref) ==
    LET authors      == ref.authors
        year         == ref.year
        citation_key == ref.citation_key
        author_count == Len(authors)
    IN  IF authors = <<>> /\ ~TruthyInt(year) THEN CitationBare(citation_key)
        ELSE IF authors = <<>> THEN CitationNoAuthors(citation_key, year)
        ELSE IF author_count = 1 THEN CitationOneAuthor(authors, year)
        ELSE IF author_count = 2 THEN CitationTwoAuthors(authors, year)
        ELSE IF ListsAllAuthors(author_count) THEN CitationAllAuthors(authors, year)
        ELSE CitationEtAl(authors, year)

-----------------------------------------------------------------------------
(* The inputs of generate_citation: parsed references with zero to        *)
(* MaxCitationAuthors authors, with and without year and citation key.    *)

AuthorNames == {"Smith, J.", "K Lee", "Plato"}

Years == {None, Some(0), Some(2020)}

ParsedRefKeys == {None, Some(""), Some("Test2020")}

InitCitation ==
    /\ pc = "ready"
    /\ IdleReference /\ IdleList /\ IdleParse
    /\ IdleOthers
    /\ parsed_ref \in [authors : SeqsUpTo(AuthorNames, MaxCitationAuthors),
                       year : Years,
                       citation_key : ParsedRefKeys]
    /\ citation_out = ""
    /\ citations = <<>>
    /\ references = <<>>
    /\ validation = NoValidation
    /\ authors_in = <<>>
    /\ author_list_out = ""

GenerateCitation ==
    /\ pc = "ready"
    /\ citation_out' = generate_citation(parsed_ref)
    /\ pc' = "done"
    /\ UNCHANGED otherVars
    /\ UNCHANGED <<referenceVars, listVars, parseVars>>
    /\ UNCHANGED <<citations, references, validation, parsed_ref,
                   authors_in, author_list_out>>

NextCitation == GenerateCitation

SpecCitation == InitCitation /\ [][NextCitation]_vars

-----------------------------------------------------------------------------
(* Properties of generate_citation, checked under SpecCitation *)

EndsWith(s, c) == s # "" /\ Ch(s, Len(s)) = c

StartsWith(s, c) == s # "" /\ Ch(s, 1) = c

\* the rendered names of the authors of the parsed reference
Rendered == [i \in 1..Len(parsed_ref.authors) |->
                _format_author_name(parsed_ref.authors[i], TRUE)]

\* all the names of a list, comma-joined, the last one joined with ", & "
CommaAmpersand(names) ==
    Join(", ", SubSeq(names, 1, Len(names) - 1)) \o ", & " \o names[Len(names)]

\* the ways a citation may end after its author part: the year of the
\* parsed reference, if it has one, or "n.d."
YearEndings ==
    {", n.d.)"}
    \cup (IF parsed_ref.year = None THEN {}
          ELSE {", " \o IntStr(parsed_ref.year[1]) \o ")"})

\* C6: generate_citation returns, for every parsed reference, a non-empty
\* string that starts with "(" and ends with ")".
C6_Parenthesized ==
    pc = "done" =>
        /\ citation_out # ""
        /\ StartsWith(citation_out, "(")
        /\ EndsWith(citation_out, ")")

\* C7: for 3, 4 or 5 authors the citation lists every rendered author,
\* comma-joined, the last one joined with ", & "; for 6 or more authors it
\* holds the first rendered author followed by " et al." and no other.
C7_AuthorCountBoundary ==
    pc = "done" =>
        LET n == Len(parsed_ref.authors)
        IN  /\ n \in 3..5 =>
                \E y \in YearEndings :
                    citation_out = "(" \o CommaAmpersand(Rendered) \o y
            /\ n >= 6 =>
                \E y \in YearEndings :
                    citation_out = "(" \o Rendered[1] \o " et al." \o y

\* C7 witness: a citation of six authors has been generated.
C7_Witness ==
    /\ pc = "done"
    /\ parsed_ref.authors = <<"Smith, J.", "K Lee", "Plato", "K Lee", "Plato", "Smith, J.">>
    /\ citation_out = "(Smith, J. et al., 2020)"

\* C8 as claimed: one author gives "(A, Y)" and two authors give
\* "(A1 & A2, Y)", Y being the year when the parsed reference has a year
\* and "n.d." when it has none.
C8_Original ==
    pc = "done" =>
        LET n == Len(parsed_ref.authors)
            Y == IF parsed_ref.year # None THEN IntStr(parsed_ref.year[1]) ELSE "n.d."
        IN  /\ n = 1 => citation_out = "(" \o Rendered[1] \o ", " \o Y \o ")"
            /\ n = 2 => citation_out =
                   "(" \o Rendered[1] \o " & " \o Rendered[2] \o ", " \o Y \o ")"

\* C8 as amended: one author gives "(A, Y)" and two authors give
\* "(A1 & A2, Y)", Y being the year when the parsed reference has a year
\* other than 0 and "n.d." when it has none or the year is 0.
C8_OneOrTwoAuthors ==
    pc = "done" =>
        LET n == Len(parsed_ref.authors)
            Y == IF parsed_ref.year \notin {None, Some(0)}
                 THEN IntStr(parsed_ref.year[1]) ELSE "n.d."
        IN  /\ n = 1 => citation_out = "(" \o Rendered[1] \o ", " \o Y \o ")"
            /\ n = 2 => citation_out =
                   "(" \o Rendered[1] \o " & " \o Rendered[2] \o ", " \o Y \o ")"

\* C8 witness: a citation of two authors without year has been generated.
C8_Witness ==
    /\ pc = "done"
    /\ parsed_ref.authors = <<"Smith, J.", "K Lee">>
    /\ parsed_ref.year = None
    /\ citation_out = "(Smith, J. & Lee, K., n.d.)"

\* C9: with no authors the citation is "(<citation_key>, <year>)" when key
\* and year are present, "(<citation_key>, n.d.)" when only the key is,
\* "(n.d., <year>)" when only the year is and "(n.d.)" when neither is;
\* a key is present when it is a non-empty string, a year when it is
\* an integer other than 0.
C9_NoAuthors ==
    pc = "done" /\ parsed_ref.authors = <<>> =>
        LET has_key  == parsed_ref.citation_key \notin {None, Some("")}
            has_year == parsed_ref.year \notin {None, Some(0)}
        IN  citation_out =
                IF has_key /\ has_year
                THEN "(" \o parsed_ref.citation_key[1] \o ", "
                         \o IntStr(parsed_ref.year[1]) \o ")"
                ELSE IF has_key
                THEN "(" \o parsed_ref.citation_key[1] \o ", n.d.)"
                ELSE IF has_year
                THEN "(n.d., " \o IntStr(parsed_ref.year[1]) \o ")"
                ELSE "(n.d.)"

-----------------------------------------------------------------------------
(* APA7Service._format_author_list *)

\* [self._format_author_name(a, for_citation=False) for a in authors]
ReferenceNames(authors) ==
    [i \in 1..Len(authors) |-> _format_author_name(authors[i], FALSE)]

\* the list of more than 7 authors cut after 7 names, not after 6
_format_author_list_seven(authors, is_editor) ==
    IF authors = <<>> THEN ""
    ELSE IF Len(authors) = 1 THEN _format_author_name(authors[1], FALSE)
    ELSE IF Len(authors) <= 7
    THEN LET formatted == ReferenceNames(authors)
         IN  IF Len(formatted) = 2
             THEN formatted[1] \o " & " \o formatted[2]
             ELSE Join(", ", SubSeq(formatted, 1, Len(formatted) - 1))
                      \o ", & " \o formatted[Len(formatted)]
    ELSE LET formatted == ReferenceNames(SubSeq(authors, 1, 7))
         IN  Join(", ", formatted) \o " et al."

\* is_editor is accepted and not read
_format_author_list(authors, is_editor) ==
    IF authors = <<>> THEN ""
    ELSE IF Len(authors) = 1 THEN _format_author_name(authors[1], FALSE)
    ELSE IF Len(authors) <= 7
    THEN LET formatted == ReferenceNames(authors)
         IN  IF Len(formatted) = 2
             THEN formatted[1] \o " & " \o formatted[2]
             ELSE Join(", ", SubSeq(formatted, 1, Len(formatted) - 1))
                      \o ", & " \o formatted[Len(formatted)]
    ELSE LET formatted == ReferenceNames(SubSeq(authors, 1, 6))
         IN  Join(", ", formatted) \o " et al."

-----------------------------------------------------------------------------
(* The inputs of _format_author_list: author lists of zero to             *)
(* MaxListAuthors names.                                                  *)

InitAuthorList ==
    /\ pc = "ready"
    /\ IdleReference /\ IdleList /\ IdleParse
    /\ IdleOthers
    /\ authors_in \in SeqsUpTo(AuthorNames, MaxListAuthors)
    /\ author_list_out = ""
    /\ citations = <<>>
    /\ references = <<>>
    /\ validation = NoValidation
    /\ parsed_ref = NoParsedRef
    /\ citation_out = ""

FormatAuthorList ==
    /\ pc = "ready"
    /\ author_list_out' = _format_author_list(authors_in, FALSE)
    /\ pc' = "done"
    /\ UNCHANGED otherVars
    /\ UNCHANGED <<referenceVars, listVars, parseVars>>
    /\ UNCHANGED <<citations, references, validation, parsed_ref,
                   citation_out, authors_in>>

NextAuthorList == FormatAuthorList

SpecAuthorList == InitAuthorList /\ [][NextAuthorList]_vars

-----------------------------------------------------------------------------
(* Properties of _format_author_list, checked under SpecAuthorList *)

\* C10: an author list of length 2 to 7 is rendered as its rendered names,
\* comma-joined, the last one joined with ", & ", so that the text before
\* the last author ends with a comma; a list of length 1 is rendered as
\* that single rendered name.
C10_ReferenceAuthorList ==
    pc = "done" =>
        LET names == ReferenceNames(authors_in)
            n     == Len(authors_in)
        IN  /\ n = 1 => author_list_out = names[1]
            /\ n \in 2..7 => author_list_out = CommaAmpersand(names)

\* C11: a list of 7 authors is rendered in full, all 7 rendered names
\* comma-joined and the last joined with ", & "; a list of 8 or more is
\* rendered as its first 6 rendered names comma-joined, followed by
\* " et al.", and no later author.
C11_ReferenceAuthorBoundary ==
    pc = "done" =>
        LET names == ReferenceNames(authors_in)
            n     == Len(authors_in)
        IN  /\ n = 7 => author_list_out = CommaAmpersand(names)
            /\ n >= 8 =>
                author_list_out =
                    names[1] \o ", " \o names[2] \o ", " \o names[3] \o ", "
                        \o names[4] \o ", " \o names[5] \o ", " \o names[6]
                        \o " et al."

\* C11 witness: a list of 8 authors has been rendered, cut after the sixth.
C11_Witness ==
    /\ pc = "done"
    /\ authors_in = <<"Smith, J.", "K Lee", "Plato", "Smith, J.",
                      "K Lee", "Plato", "Smith, J.", "K Lee">>
    /\ author_list_out =
           "Smith, J., Lee, K., Plato, Smith, J., Lee, K., Plato et al."

-----------------------------------------------------------------------------
(* generate_reference and the five entry formatters.  A reference dict is *)
(* a record over the keys the formatters read; a key the dict does not    *)
(* hold has the value Missing.  year is an int, every other scalar field  *)
(* a str, authors and editors lists of str.                               *)

\* ref.get(key, []) as a list: a None list is falsy like the empty one
ListOf(d, key) ==
    LET v == Get(d, key, Some(<<>>))
    IN  IF v = None THEN <<>> ELSE v[1]

\* year = ref.get("year", "n.d."), as the text f"{year}" of a truthy year:
\* the default "n.d." of a missing key, the digits of a non-zero int, and
\* None for a falsy year (None or 0)
YearText(d) ==
    IF d.year = Missing THEN Some("n.d.")
    ELSE IF TruthyInt(d.year) THEN Some(IntStr(d.year[1]))
    ELSE None

\* if year: parts.append(f"({year}).")
YearPart(d) ==
    LET year == YearText(d)
    IN  IF year # None THEN <<"(" \o year[1] \o ").">> ELSE <<>>

\* if author_str: parts.append(author_str)
AuthorPart(author_str) == IF author_str # "" THEN <<author_str>> ELSE <<>>

\* if text: parts.append(f"{text}.")
SentencePart(text) == IF TruthyStr(text) THEN <<text[1] \o ".">> ELSE <<>>

\* the publisher segment of a book entry
PublisherPart(publisher, location) ==
    IF TruthyStr(publisher)
    THEN IF TruthyStr(location)
         THEN <<location[1] \o ": " \o publisher[1] \o ".">>
         ELSE <<publisher[1] \o ".">>
    ELSE <<>>

_format_book_reference(d) ==
    LET title      == Get(d, "title", Some(""))
        publisher  == Get(d, "publisher", Some(""))
        location   == Get(d, "location", Some(""))
        author_str == _format_author_list(ListOf(d, "authors"), FALSE)
    IN  Join(" ", AuthorPart(author_str) \o YearPart(d) \o SentencePart(title)
                      \o PublisherPart(publisher, location))

\* the source segment without the comma that closes a volume with no issue
SourcePart_open(source, volume, issue) ==
    IF TruthyStr(source)
    THEN IF TruthyStr(volume)
         THEN IF TruthyStr(issue)
              THEN <<source[1] \o ", " \o volume[1] \o "(" \o issue[1] \o "),">>
              ELSE <<source[1] \o ", " \o volume[1]>>
         ELSE <<source[1] \o ",">>
    ELSE <<>>

\* the source segment of an article entry, the volume nested in it
SourcePart(source, volume, issue) ==
    IF TruthyStr(source)
    THEN IF TruthyStr(volume)
         THEN IF TruthyStr(issue)
              THEN <<source[1] \o ", " \o volume[1] \o "(" \o issue[1] \o "),">>
              ELSE <<source[1] \o ", " \o volume[1] \o ",">>
         ELSE <<source[1] \o ",">>
    ELSE <<>>

\* if doi: parts.append(f"https://doi.org/{doi}")
DoiPart(doi) == IF TruthyStr(doi) THEN <<"https://doi.org/" \o doi[1]>> ELSE <<>>

_format_article_reference(d) ==
    LET title      == Get(d, "title", Some(""))
        source     == Get(d, "source", Get(d, "journal", Some("")))
        volume     == Get(d, "volume", None)
        issue      == Get(d, "issue", None)
        pages      == Get(d, "pages", None)
        doi        == Get(d, "doi", None)
        author_str == _format_author_list(ListOf(d, "authors"), FALSE)
    IN  Join(" ", AuthorPart(author_str) \o YearPart(d) \o SentencePart(title)
                      \o SourcePart(source, volume, issue)
                      \o SentencePart(pages) \o DoiPart(doi))

\* the date segment of a web entry: a truthy year that is not the default
\* "n.d.", else the retrieved date
WebDatePart(d, retrieved_date) ==
    IF d.year # Missing /\ TruthyInt(d.year)
    THEN <<"(" \o IntStr(d.year[1]) \o ").">>
    ELSE IF TruthyStr(retrieved_date)
    THEN <<"(" \o retrieved_date[1] \o ").">>
    ELSE <<>>

\* now is datetime.now().strftime("%B %d, %Y")
_format_web_reference(d, now) ==
    LET authors        == ListOf(d, "authors")
        title          == Get(d, "title", Some(""))
        site_name      == Get(d, "site_name", Get(d, "source", Some("")))
        url            == Get(d, "url", Some(""))
        retrieved_date == Get(d, "retrieved_date", Some(now))
        author_str     == IF authors # <<>>
                          THEN _format_author_list(authors, FALSE)
                          ELSE IF TruthyStr(site_name) THEN site_name[1]
                          ELSE ""
    IN  Join(" ", AuthorPart(author_str) \o WebDatePart(d, retrieved_date)
                      \o SentencePart(title)
                      \o (IF TruthyStr(site_name) /\ authors # <<>>
                          THEN <<site_name[1] \o ".">> ELSE <<>>)
                      \o (IF TruthyStr(url) THEN <<url[1]>> ELSE <<>>))

\* the "In ..." segment of a chapter entry
BookTitlePart(editor_str, book_title) ==
    IF editor_str # "" /\ TruthyStr(book_title)
    THEN <<"In " \o editor_str \o " (Ed.), " \o book_title[1]>>
    ELSE IF TruthyStr(book_title) THEN <<"In " \o book_title[1]>>
    ELSE <<>>

\* the pages segment of a chapter entry, a lone "." closing the book title
ChapterPagesPart(pages, book_title) ==
    IF TruthyStr(pages) THEN <<"(pp. " \o pages[1] \o ").">>
    ELSE IF TruthyStr(book_title) THEN <<".">>
    ELSE <<>>

_format_chapter_reference(d) ==
    LET chapter_title == Get(d, "title", Get(d, "chapter_title", Some("")))
        book_title    == Get(d, "book_title", Get(d, "source", Some("")))
        publisher     == Get(d, "publisher", Some(""))
        pages         == Get(d, "pages", Some(""))
        author_str    == _format_author_list(ListOf(d, "authors"), FALSE)
        editor_str    == _format_author_list(ListOf(d, "editors"), TRUE)
    IN  Join(" ", AuthorPart(author_str) \o YearPart(d)
                      \o SentencePart(chapter_title)
                      \o BookTitlePart(editor_str, book_title)
                      \o ChapterPagesPart(pages, book_title)
                      \o SentencePart(publisher))

_format_generic_reference(d) ==
    LET title      == Get(d, "title", Some(""))
        source     == Get(d, "source", Some(""))
        author_str == _format_author_list(ListOf(d, "authors"), FALSE)
    IN  Join(" ", AuthorPart(author_str) \o YearPart(d) \o SentencePart(title)
                      \o SentencePart(source))

\* a missing type taken for a type without a template
RefType_other(d) == Lower(Get(d, "type", Some("other"))[1])

\* ref_type = parsed_ref.get("type", "book").lower()
RefType(d) == Lower(Get(d, "type", Some("book"))[1])

\* the dispatch without the second spelling of the web type
generate_reference_web_only(d, now) ==
    LET ref_type == RefType(d)
    IN  IF ref_type = "book" THEN _format_book_reference(d)
        ELSE IF ref_type = "article" THEN _format_article_reference(d)
        ELSE IF ref_type = "web" THEN _format_web_reference(d, now)
        ELSE IF ref_type = "chapter" THEN _format_chapter_reference(d)
        ELSE _format_generic_reference(d)

generate_reference(d, now) ==
    LET ref_type == RefType(d)
    IN  IF ref_type = "book" THEN _format_book_reference(d)
        ELSE IF ref_type = "article" THEN _format_article_reference(d)
        ELSE IF ref_type = "web" \/ ref_type = "website"
        THEN _format_web_reference(d, now)
        ELSE IF ref_type = "chapter" THEN _format_chapter_reference(d)
        ELSE _format_generic_reference(d)

-----------------------------------------------------------------------------
(* The inputs of generate_reference: for each entry kind, dicts over the  *)
(* keys its formatter reads, each key missing, None, empty or set.        *)

AuthorLists == {Missing, Some(<<>>), Some(<<"Smith, J.">>),
                Some(<<"Smith, J.", "K Lee">>)}

RefYears == {Missing, None, Some(0), Some(2020)}

Titles == {Missing, None, Some("Example Book")}

\* the value datetime.now() gives the retrieved date of a web entry
Todays == {"November 05, 2026", "January 01, 2027"}

\* type missing, book in two spellings, and two types with no template
BookOrOtherDicts ==
    {[NoFields EXCEPT !.type = t, !.authors = a, !.year = y, !.title = ti,
                      !.publisher = pu, !.location = lo, !.source = so] :
        t \in {Missing, Some("book"), Some("Book"), Some("thesis"), Some("")},
        a \in AuthorLists \ {Some(<<>>)}, y \in RefYears, ti \in Titles,
        pu \in {Missing, Some("Academic Press")},
        lo \in {Missing, Some("New York")},
        so \in {Missing, Some("Archive")}}

ArticleDicts ==
    {[NoFields EXCEPT !.type = Some("article"), !.authors = a, !.year = y,
                      !.title = ti, !.source = so, !.journal = jo,
                      !.volume = vo, !.issue = is, !.pages = pg,
                      !.doi = doi] :
        a \in {Some(<<>>), Some(<<"Smith, J.">>)}, y \in RefYears,
        ti \in {Missing, Some("Example Article")},
        so \in {Missing, None, Some("Journal of Testing")},
        jo \in {Missing, Some("Old Journal")},
        vo \in {Missing, None, Some("45")},
        is \in {None, Some("3")},
        pg \in {None, Some("123-145")},
        doi \in {None, Some("10.1234/example")}}

WebDicts ==
    {[NoFields EXCEPT !.type = t, !.authors = a, !.year = y, !.title = ti,
                      !.site_name = si, !.source = so, !.url = u,
                      !.retrieved_date = rd] :
        t \in {Some("web"), Some("Website")},
        a \in {Missing, Some(<<"Smith, J.">>)}, y \in RefYears,
        ti \in {Missing, Some("Example Page")},
        si \in {Missing, Some("Example Site")},
        so \in {Missing, Some("Archive")},
        u \in {Missing, Some("https://example.com")},
        rd \in {Missing, Some(""), Some("May 01, 2020")}}

ChapterDicts ==
    {[NoFields EXCEPT !.type = Some("chapter"), !.authors = a, !.year = y,
                      !.title = ti, !.chapter_title = ct, !.editors = ed,
                      !.book_title = bt, !.source = so, !.publisher = pu,
                      !.pages = pg] :
        a \in {Missing, Some(<<"Smith, J.">>)},
        y \in {Missing, None, Some(2020)},
        ti \in {Missing, Some("Example Chapter")},
        ct \in {Missing, Some("Chapter One")},
        ed \in {Missing, Some(<<"K Lee">>)},
        bt \in {Missing, Some("Example Book")},
        so \in {Missing, Some("Archive")},
        pu \in {Missing, Some("Academic Press")},
        pg \in {Missing, Some("10-20")}}

RefDicts == BookOrOtherDicts \cup ArticleDicts \cup WebDicts \cup ChapterDicts

InitReference ==
    /\ pc = "ready"
    /\ reference_in \in RefDicts
    /\ today \in Todays
    /\ reference_out = ""
    /\ citations = <<>>
    /\ references = <<>>
    /\ validation = NoValidation
    /\ parsed_ref = NoParsedRef
    /\ citation_out = ""
    /\ authors_in = <<>>
    /\ author_list_out = ""
    /\ IdleList /\ IdleParse
    /\ IdleOthers

GenerateReference ==
    /\ pc = "ready"
    /\ reference_out' = generate_reference(reference_in, today)
    /\ pc' = "done"
    /\ UNCHANGED otherVars
    /\ UNCHANGED <<citations, references, validation, parsed_ref,
                   citation_out, authors_in, author_list_out,
                   reference_in, today, listVars, parseVars>>

NextReference == GenerateReference

SpecReference == InitReference /\ [][NextReference]_vars

-----------------------------------------------------------------------------
(* Claims about generate_reference *)

\* the type values that have a template of their own
RecognisedTypes == {"book", "article", "web", "website", "chapter"}

\* the reference passed in, its type set to "book"
AsBook == [reference_in EXCEPT !.type = Some("book")]

\* the strings of a sequence that are not empty, joined by one space
JoinNonEmpty(texts) ==
    LET NonEmpty(t) == t # ""
    IN  Join(" ", SelectSeq(texts, NonEmpty))

\* "text." for a field that holds a non-empty string, "" otherwise
Sentence(field) ==
    IF field \in {Missing, None, Some("")} THEN "" ELSE field[1] \o "."

\* "(year).", "(n.d.)." for a dict without the key, "" for None and 0
YearSegment(d) ==
    IF d.year = Missing THEN "(n.d.)."
    ELSE IF d.year \in {None, Some(0)} THEN ""
    ELSE "(" \o IntStr(d.year[1]) \o ")."

\* "AuthorList (Year). Title. Source." with the empty segments left out
GenericEntry(d) ==
    JoinNonEmpty(<<_format_author_list(ListOf(d, "authors"), FALSE),
                   YearSegment(d), Sentence(d.title), Sentence(d.source)>>)

\* C12 as stated: a record whose type is unspecified or is not one of the
\* recognised values gives the output of the same record with type "book".
C12_Original ==
    (pc = "done" /\ (reference_in.type = Missing
                        \/ reference_in.type[1] \notin RecognisedTypes))
        => reference_out = generate_reference(AsBook, today)

\* C12: a record without a type gives the output of the same record with
\* type "book"; a record whose type, lowercased, is not a recognised value
\* gives the generic entry, which is the book output exactly when the
\* source segment and the publisher segment of the record are the same.
C12_UnspecifiedIsBook ==
    pc = "done" =>
        /\ reference_in.type = Missing
               => reference_out = generate_reference(AsBook, today)
        /\ (reference_in.type # Missing
                /\ Lower(reference_in.type[1]) \notin RecognisedTypes)
               => /\ reference_out = GenericEntry(reference_in)
                  /\ (reference_out = generate_reference(AsBook, today))
                         <=> (Sentence(reference_in.source)
                                  = JoinNonEmpty(
                                        PublisherPart(
                                            Get(reference_in, "publisher",
                                                Some("")),
                                            Get(reference_in, "location",
                                                Some("")))))

\* C12 witness: a thesis with a publisher has been rendered without it.
C12_Witness ==
    /\ pc = "done"
    /\ reference_in.type = Some("thesis")
    /\ reference_in.publisher = Some("Academic Press")
    /\ reference_in.source = Missing
    /\ reference_in.year = Some(2020)
    /\ reference_out = "Smith, J. (2020). Example Book."
    /\ generate_reference(AsBook, today)
           = "Smith, J. (2020). Example Book. Academic Press."

\* the template that a type value selects, the value compared as given
TemplateOf(type_value, d, now) ==
    IF type_value = "book" THEN _format_book_reference(d)
    ELSE IF type_value = "article" THEN _format_article_reference(d)
    ELSE IF type_value \in {"web", "website"} THEN _format_web_reference(d, now)
    ELSE IF type_value = "chapter" THEN _format_chapter_reference(d)
    ELSE GenericEntry(d)

\* C13 as stated: the type value book, article, web, website or chapter
\* selects its template and every other type value the generic entry.
C13_Original ==
    (pc = "done" /\ reference_in.type # Missing)
        => reference_out = TemplateOf(reference_in.type[1], reference_in, today)

\* C13: the lowercased type value book, article, web, website or chapter
\* selects its template, every other type value the generic entry
\* "AuthorList (Year). Title. Source." with the empty segments omitted.
C13_Dispatch ==
    (pc = "done" /\ reference_in.type # Missing)
        => reference_out
               = TemplateOf(Lower(reference_in.type[1]), reference_in, today)

\* C13 witness: a record of type "Website" has been rendered by the web
\* template, the site name standing for the author.
C13_Witness ==
    /\ pc = "done"
    /\ reference_in.type = Some("Website")
    /\ reference_in.authors = Missing
    /\ reference_in.site_name = Some("Example Site")
    /\ reference_in.year = Some(2020)
    /\ reference_out
           = "Example Site (2020). Example Page. https://example.com"

\* text occurs in s
Contains(s, text) ==
    \E i \in 1..(Len(s) - Len(text) + 1) : SubSeq(s, i, i + Len(text) - 1) = text

\* C14: a book, article, chapter or generic entry of a record whose year
\* is absent, the key missing or its value None, has the year segment
\* "(n.d.).".
C14_AbsentYearNd ==
    (pc = "done"
        /\ RefType(reference_in) \notin {"web", "website"}
        /\ reference_in.year \in {Missing, None})
        => Contains(reference_out, "(n.d.).")

\* a string field that holds no text: no key, None or ""
Empty(field) == field \in {Missing, None, Some("")}

\* the text of a string field, "" for an empty one
TextOf(field) == IF Empty(field) THEN "" ELSE field[1]

\* the source of an article: its source key, or its journal key when it
\* has no source key
ArticleSource(d) == IF d.source = Missing THEN d.journal ELSE d.source

\* C15 as stated: every non-empty field of an article among authors, year,
\* title, source, volume, issue, pages and doi is rendered.
C15_Original ==
    (pc = "done" /\ RefType(reference_in) = "article")
        => /\ Contains(reference_out,
                       _format_author_list(ListOf(reference_in, "authors"),
                                           FALSE))
           /\ TruthyInt(reference_in.year)
                  => Contains(reference_out, IntStr(reference_in.year[1]))
           /\ \A f \in {"title", "source", "volume", "issue", "pages", "doi"} :
                  Contains(reference_out, TextOf(reference_in[f]))

\* the source segment of an article: "Source, Volume(Issue),", without
\* the issue when the issue or the volume is empty, without the volume when
\* the volume is empty, and nothing when the source is empty
SourceSegment(d) ==
    LET source == TextOf(ArticleSource(d))
        volume == TextOf(d.volume)
        issue  == TextOf(d.issue)
    IN  IF source = "" THEN ""
        ELSE IF volume = "" THEN source \o ","
        ELSE IF issue = "" THEN source \o ", " \o volume \o ","
        ELSE source \o ", " \o volume \o "(" \o issue \o "),"

\* the year segments an article can show: "(Year)." for a non-empty year,
\* none or "(n.d.)." for a record without a year
YearSegments(d) ==
    IF d.year # Missing /\ TruthyInt(d.year)
    THEN {"(" \o IntStr(d.year[1]) \o ")."}
    ELSE {"", "(n.d.)."}

\* C15: an article entry is its non-empty segments joined by one space, in
\* the order author list, year, "Title.", source segment, "Pages.",
\* "https://doi.org/<doi>"; the volume is part of the source segment and
\* shown only with a source, the issue only with a source and a volume.
C15_ArticleTemplate ==
    (pc = "done" /\ RefType(reference_in) = "article")
        => \E year_segment \in YearSegments(reference_in) :
               reference_out =
                   JoinNonEmpty(
                       <<_format_author_list(ListOf(reference_in, "authors"),
                                             FALSE),
                         year_segment,
                         Sentence(reference_in.title),
                         SourceSegment(reference_in),
                         Sentence(reference_in.pages),
                         IF Empty(reference_in.doi) THEN ""
                         ELSE "https://doi.org/" \o reference_in.doi[1]>>)

\* C15 witness: an article with a volume and an issue and no source has
\* been rendered without its volume and issue.
C15_Witness ==
    /\ pc = "done"
    /\ reference_in.type = Some("article")
    /\ ArticleSource(reference_in) = Missing
    /\ reference_in.volume = Some("45")
    /\ reference_in.issue = Some("3")
    /\ reference_out = "Smith, J. (2020). Example Article. 123-145. "
                           \o "https://doi.org/10.1234/example"

-----------------------------------------------------------------------------
(* generate_reference_list *)

MaxListReferences == 2

\* a text entry indented by four spaces, not by a tab
Wrap_spaces(formatted, format) ==
    IF format = "html"
    THEN "<p style=\"text-indent: -36px; padding-left: 36px;\">"
             \o formatted \o "</p>"
    ELSE IF format = "latex"
    THEN "\\hangindent=36pt " \o formatted \o "\\\\"
    ELSE "    " \o formatted

\* an entry of a format that is not known left as it is
Wrap_known_only(formatted, format) ==
    IF format = "html"
    THEN "<p style=\"text-indent: -36px; padding-left: 36px;\">"
             \o formatted \o "</p>"
    ELSE IF format = "latex"
    THEN "\\hangindent=36pt " \o formatted \o "\\\\"
    ELSE IF format = "text" THEN "\t" \o formatted
    ELSE formatted

\* the entry appended to formatted_refs for one reference
Wrap(formatted, format) ==
    IF format = "html"
    THEN "<p style=\"text-indent: -36px; padding-left: 36px;\">"
             \o formatted \o "</p>"
    ELSE IF format = "latex"
    THEN "\\hangindent=36pt " \o formatted \o "\\\\"
    ELSE "\t" \o formatted

generate_reference_list(refs, format, now) ==
    LET formatted_refs ==
            [i \in 1..Len(refs) |->
                Wrap(generate_reference(refs[i], now), format)]
    IN  Join("\n", formatted_refs)

\* one reference of each entry kind; the web page has no year and shows
\* the date of the call
ListDicts ==
    {[NoFields EXCEPT !.type = Some("book"),
                      !.authors = Some(<<"Smith, J.">>), !.year = Some(2020),
                      !.title = Some("Example Book"),
                      !.publisher = Some("Academic Press")],
     [NoFields EXCEPT !.type = Some("article"),
                      !.authors = Some(<<"Smith, J.", "K Lee">>),
                      !.year = Some(2019), !.title = Some("Example Article"),
                      !.source = Some("Journal of Testing"),
                      !.volume = Some("45"), !.issue = Some("3"),
                      !.pages = Some("123-145")],
     [NoFields EXCEPT !.type = Some("web"), !.title = Some("Example Page"),
                      !.site_name = Some("Example Site"),
                      !.url = Some("https://example.com")],
     NoFields}

ListFormats == {"text", "html", "latex", "bogus", "HTML", ""}

InitList ==
    /\ pc = "ready"
    /\ list_refs \in SeqsUpTo(ListDicts, MaxListReferences)
    /\ format_output \in ListFormats
    /\ today \in Todays
    /\ list_out = ""
    /\ reference_in = NoFields
    /\ reference_out = ""
    /\ citations = <<>>
    /\ references = <<>>
    /\ validation = NoValidation
    /\ parsed_ref = NoParsedRef
    /\ citation_out = ""
    /\ authors_in = <<>>
    /\ author_list_out = ""
    /\ IdleParse
    /\ IdleOthers

GenerateReferenceList ==
    /\ pc = "ready"
    /\ list_out' = generate_reference_list(list_refs, format_output, today)
    /\ pc' = "done"
    /\ UNCHANGED otherVars
    /\ UNCHANGED <<citations, references, validation, parsed_ref,
                   citation_out, authors_in, author_list_out,
                   referenceVars, list_refs, format_output, parseVars>>

NextList == GenerateReferenceList

SpecList == InitList /\ [][NextList]_vars

\* the text put before and after an entry in each of the three formats
EntryPrefix(format) ==
    CASE format = "text" -> "\t"
      [] format = "html" ->
             "<p style=\"text-indent: -36px; padding-left: 36px;\">"
      [] format = "latex" -> "\\hangindent=36pt "

EntrySuffix(format) ==
    CASE format = "text" -> ""
      [] format = "html" -> "</p>"
      [] format = "latex" -> "\\\\"

\* the list from its first entry on: the entries in input order, a
\* newline between two of them
RECURSIVE EntriesFrom(_, _)
EntriesFrom(i, format) ==
    IF i > Len(list_refs) THEN ""
    ELSE EntryPrefix(format) \o generate_reference(list_refs[i], today)
             \o EntrySuffix(format)
             \o (IF i < Len(list_refs) THEN "\n" ELSE "")
             \o EntriesFrom(i + 1, format)

\* C16: for text, html and latex the list is one wrapped entry per
\* record, in input order, joined by a newline: a tab before each text
\* entry, the <p style=...> and </p> tags around each html entry,
\* \hangindent=36pt before and \\ after each latex entry.
C16_WrappedEntries ==
    (pc = "done" /\ format_output \in {"text", "html", "latex"})
        => list_out = EntriesFrom(1, format_output)

\* C16 witness: a book and an article have been listed for latex.
C16_Witness ==
    /\ pc = "done"
    /\ format_output = "latex"
    /\ list_out = "\\hangindent=36pt Smith, J. (2020). Example Book. "
                      \o "Academic Press.\\\\\n"
                      \o "\\hangindent=36pt Smith, J. & Lee, K. (2019). "
                      \o "Example Article. Journal of Testing, 45(3), "
                      \o "123-145.\\\\"

\* C17: a format other than text, html and latex gives the list that the
\* format text gives for the same references.
C17_UnknownFormatIsText ==
    (pc = "done" /\ format_output \notin {"text", "html", "latex"})
        => list_out = generate_reference_list(list_refs, "text", today)

\* C17 witness: two references have been listed for the format "bogus",
\* each after a tab.
C17_Witness ==
    /\ pc = "done"
    /\ format_output = "bogus"
    /\ Len(list_refs) = 2
    /\ list_out = "\tSmith, J. (2020). Example Book. Academic Press.\n"
                      \o "\t(n.d.)."

-----------------------------------------------------------------------------
(* parse_reference_text.  A regular expression is modelled by an operator *)
(* that gives, for a start index, the index after the match the re module *)
(* returns there (0 when the expression does not match there), and by a   *)
(* search that takes the leftmost start index with a match.  A TLA+       *)
(* string holds ASCII only: the four characters below stand in the model  *)
(* for the characters outside ASCII that the page expression and the      *)
(* input texts use.                                                       *)

\* U+00E2, U+20AC and U+201C, the characters of the page expression's
\* class besides "-", and U+2013, the en dash
ACircumflex == "^"
EuroSign == "$"
LeftQuote == "|"
EnDash == "~"

\* \w of a str pattern over the characters of the model: U+00E2 is a letter
UnicodeWordChars == WordChars \cup {ACircumflex}

\* the index after the longest run of characters of chars that starts at i
RECURSIVE RunEnd(_, _, _)
RunEnd(s, i, chars) ==
    IF i <= Len(s) /\ Ch(s, i) \in chars THEN RunEnd(s, i + 1, chars) ELSE i

\* [^\s]+ : the index after the longest run of non-space characters
RECURSIVE NonSpaceEnd(_, _)
NonSpaceEnd(s, i) ==
    IF i <= Len(s) /\ Ch(s, i) \notin SpaceChars THEN NonSpaceEnd(s, i + 1)
    ELSE i

\* text occurs in s at index i
StartsAt(s, i, text) ==
    i >= 1 /\ i + Len(text) - 1 <= Len(s)
        /\ SubSeq(s, i, i + Len(text) - 1) = text

\* the least element of a non-empty set of indices
Leftmost(indices) == CHOOSE i \in indices : \A j \in indices : i <= j

\* s.find(text), as the 1-based index of the first occurrence from i on,
\* 0 when there is none
FindFrom(s, text, i) ==
    LET starts == {j \in i..Len(s) : StartsAt(s, j, text)}
    IN  IF starts = {} THEN 0 ELSE Leftmost(starts)

\* "text in s"
In(text, s) == FindFrom(s, text, 1) # 0

\* the DOI expression with three digits enough after "10."
DoiEnd_three(s, i) ==
    IF ~StartsAt(s, i, "10.") THEN 0
    ELSE LET digits_end == RunEnd(s, i + 3, DigitChars)
         IN  IF digits_end - (i + 3) >= 3 /\ StartsAt(s, digits_end, "/")
                    /\ NonSpaceEnd(s, digits_end + 1) > digits_end + 1
             THEN NonSpaceEnd(s, digits_end + 1)
             ELSE 0

\* DOI_PATTERN = 10\.\d{4,}/[^\s]+ , no letter in it for IGNORECASE
DoiEnd(s, i) ==
    IF ~StartsAt(s, i, "10.") THEN 0
    ELSE LET digits_end == RunEnd(s, i + 3, DigitChars)
         IN  IF digits_end - (i + 3) >= 4 /\ StartsAt(s, digits_end, "/")
                    /\ NonSpaceEnd(s, digits_end + 1) > digits_end + 1
             THEN NonSpaceEnd(s, digits_end + 1)
             ELSE 0

\* DOI_PATTERN.search(raw_text): None or Some(group(0))
DoiSearch(s, i) ==
    LET starts == {j \in i..Len(s) : DoiEnd(s, j) # 0}
    IN  IF starts = {} THEN None
        ELSE Some(SubSeq(s, Leftmost(starts), DoiEnd(s, Leftmost(starts)) - 1))

\* https?://[^\s]+ with IGNORECASE
UrlEnd(s, i) ==
    IF i + 3 > Len(s) \/ Lower(SubSeq(s, i, i + 3)) # "http" THEN 0
    ELSE LET scheme_end == IF i + 4 <= Len(s) /\ Ch(s, i + 4) \in {"s", "S"}
                           THEN i + 5 ELSE i + 4
         IN  IF StartsAt(s, scheme_end, "://")
                    /\ NonSpaceEnd(s, scheme_end + 3) > scheme_end + 3
             THEN NonSpaceEnd(s, scheme_end + 3)
             ELSE 0

\* url_pattern.search(raw_text): None or Some(group(0))
UrlSearch(s, i) ==
    LET starts == {j \in i..Len(s) : UrlEnd(s, j) # 0}
    IN  IF starts = {} THEN None
        ELSE Some(SubSeq(s, Leftmost(starts), UrlEnd(s, Leftmost(starts)) - 1))

\* \b(19|20)\d{2}\b matches at i
YearAt(s, i) ==
    /\ i + 3 <= Len(s)
    /\ SubSeq(s, i, i + 1) \in {"19", "20"}
    /\ Ch(s, i + 2) \in DigitChars
    /\ Ch(s, i + 3) \in DigitChars
    /\ (i = 1 \/ Ch(s, i - 1) \notin UnicodeWordChars)
    /\ (i + 3 = Len(s) \/ Ch(s, i + 4) \notin UnicodeWordChars)

\* re.search(r'\b(19|20)\d{2}\b', raw_text): None or Some(group(0))
YearSearch(s, i) ==
    LET starts == {j \in i..Len(s) : YearAt(s, j)}
    IN  IF starts = {} THEN None
        ELSE Some(SubSeq(s, Leftmost(starts), Leftmost(starts) + 3))

\* int(text) for a string of decimal digits
RECURSIVE ToInt(_)
ToInt(text) ==
    IF text = "" THEN 0
    ELSE 10 * ToInt(SubSeq(text, 1, Len(text) - 1))
             + ((CHOOSE k \in 1..10 :
                     Ch(DigitAlphabet, k) = Ch(text, Len(text))) - 1)

\* ([A-Z][a-z]+(?:\s+[A-Z]\.?)+) : the index after the initials that
\* follow the surname ending before i, 0 when no initial follows
RECURSIVE InitialsEnd(_, _, _)
InitialsEnd(s, i, matched) ==
    LET space_end == RunEnd(s, i, SpaceChars)
    IN  IF space_end > i /\ space_end <= Len(s)
               /\ Ch(s, space_end) \in UpperChars
        THEN InitialsEnd(s, IF StartsAt(s, space_end + 1, ".")
                            THEN space_end + 2 ELSE space_end + 1, TRUE)
        ELSE IF matched THEN i ELSE 0

AuthorEnd(s, i) ==
    IF i <= Len(s) /\ Ch(s, i) \in UpperChars
           /\ RunEnd(s, i + 1, LowerChars) > i + 1
    THEN InitialsEnd(s, RunEnd(s, i + 1, LowerChars), FALSE)
    ELSE 0

\* re.findall of the author expression: the matches from left to right,
\* the search going on after each match
RECURSIVE AuthorFindall(_, _)
AuthorFindall(s, i) ==
    LET match_end == AuthorEnd(s, i)
    IN  IF i > Len(s) THEN <<>>
        ELSE IF match_end # 0
        THEN <<SubSeq(s, i, match_end - 1)>> \o AuthorFindall(s, match_end)
        ELSE AuthorFindall(s, i + 1)

\* author_names[:5]
FirstFive(names) == SubSeq(names, 1, IF Len(names) < 5 THEN Len(names) ELSE 5)

\* re.sub(r'^[.,;:\s]+', '', title_section)
StripLeadingPunctuation(text) ==
    SubSeq(text, RunEnd(text, 1, {".", ",", ";", ":"} \cup SpaceChars),
           Len(text))

\* \s+(?:Journal|Review|Magazine) matches at i: the index after it, or 0
KeywordEnd(s, i) ==
    LET space_end == RunEnd(s, i, SpaceChars)
    IN  IF space_end = i THEN 0
        ELSE IF StartsAt(s, space_end, "Journal") THEN space_end + 7
        ELSE IF StartsAt(s, space_end, "Review") THEN space_end + 6
        ELSE IF StartsAt(s, space_end, "Magazine") THEN space_end + 8
        ELSE 0

\* [A-Z][a-z]+ matches at i: the index after it, or 0
CapitalizedEnd(s, i) ==
    IF i <= Len(s) /\ Ch(s, i) \in UpperChars
           /\ RunEnd(s, i + 1, LowerChars) > i + 1
    THEN RunEnd(s, i + 1, LowerChars)
    ELSE 0

\* (?:\s+[A-Z][a-z]+)*\s+(?:Journal|Review|Magazine) after a word that
\* ends before i: the greedy star takes one more word when the rest then
\* matches, and gives it back when it does not
RECURSIVE ChainEnd(_, _)
ChainEnd(s, i) ==
    LET space_end == RunEnd(s, i, SpaceChars)
        word_end  == IF space_end > i THEN CapitalizedEnd(s, space_end) ELSE 0
        longer    == IF word_end # 0 THEN ChainEnd(s, word_end) ELSE 0
    IN  IF longer # 0 THEN longer ELSE KeywordEnd(s, i)

JournalEnd(s, i) ==
    IF CapitalizedEnd(s, i) # 0 THEN ChainEnd(s, CapitalizedEnd(s, i)) ELSE 0

\* re.search of the journal expression: None or Some(group(1))
JournalSearch(s, i) ==
    LET starts == {j \in i..Len(s) : JournalEnd(s, j) # 0}
    IN  IF starts = {} THEN None
        ELSE Some(SubSeq(s, Leftmost(starts),
                         JournalEnd(s, Leftmost(starts)) - 1))

\* (\d+)\s*\((\d+)\) matches at i: <<group(1), group(2)>>, or <<>>
VolumeAt(s, i) ==
    LET volume_end == RunEnd(s, i, DigitChars)
        paren      == RunEnd(s, volume_end, SpaceChars)
        issue_end  == RunEnd(s, paren + 1, DigitChars)
    IN  IF volume_end > i /\ StartsAt(s, paren, "(")
               /\ issue_end > paren + 1 /\ StartsAt(s, issue_end, ")")
        THEN <<SubSeq(s, i, volume_end - 1),
               SubSeq(s, paren + 1, issue_end - 1)>>
        ELSE <<>>

\* re.search of the volume expression: the groups of the leftmost match
VolumeSearch(s, i) ==
    LET starts == {j \in i..Len(s) : VolumeAt(s, j) # <<>>}
    IN  IF starts = {} THEN <<>> ELSE VolumeAt(s, Leftmost(starts))

\* the class of the page expression: "-" and the three characters that
\* the bytes of an en dash give when they are read as Windows-1252
PageSeparators == {"-", ACircumflex, EuroSign, LeftQuote}

\* (\d+)\s*[...]\s*(\d+) matches at i: <<group(1), group(2)>>, or <<>>
PagesAt(s, i) ==
    LET first_end == RunEnd(s, i, DigitChars)
        separator == RunEnd(s, first_end, SpaceChars)
        second    == RunEnd(s, separator + 1, SpaceChars)
        last_end  == RunEnd(s, second, DigitChars)
    IN  IF first_end > i /\ separator <= Len(s)
               /\ Ch(s, separator) \in PageSeparators /\ last_end > second
        THEN <<SubSeq(s, i, first_end - 1), SubSeq(s, second, last_end - 1)>>
        ELSE <<>>

\* re.search of the page expression: the groups of the leftmost match
PagesSearch(s, i) ==
    LET starts == {j \in i..Len(s) : PagesAt(s, j) # <<>>}
    IN  IF starts = {} THEN <<>> ELSE PagesAt(s, Leftmost(starts))

\* parsed["year"]: int(full_year_match.group(0)), None without a match
ParsedYear(raw) ==
    LET full_year_match == YearSearch(raw, 1)
    IN  IF full_year_match = None THEN None
        ELSE Some(ToInt(full_year_match[1]))

\* raw_text.find(str(parsed["year"])), 1-based
YearPos(raw) == FindFrom(raw, IntStr(ParsedYear(raw)[1]), 1)

\* before_year = raw_text[:year_pos] if parsed["year"] else raw_text
BeforeYear(raw) ==
    LET year == ParsedYear(raw)
    IN  IF TruthyInt(year)
        THEN SubSeq(raw, 1, FindFrom(raw, IntStr(year[1]), 1) - 1)
        ELSE raw

\* author_section = before_year.split('.')[0] if '.' in before_year
\*                  else before_year
AuthorSection(raw) ==
    LET before_year == BeforeYear(raw)
    IN  IF HasChar(before_year, ".") THEN SplitOn(before_year, ".")[1]
        ELSE before_year

\* title_section, stripped of spaces and of its leading punctuation
TitleSection(raw) ==
    StripLeadingPunctuation(
        Strip(SubSeq(raw, Len(AuthorSection(raw)) + 1, YearPos(raw) - 1)))

\* the title section stored whatever its length, "" without a year
ParsedTitle_always(raw) ==
    IF TruthyInt(ParsedYear(raw)) THEN Some(TitleSection(raw)) ELSE Some("")

\* parsed["title"]
ParsedTitle(raw) ==
    LET title_section == TitleSection(raw)
    IN  IF TruthyInt(ParsedYear(raw)) /\ Len(title_section) > 10
        THEN Some(title_section)
        ELSE None

\* "Magazine" naming a journal too
NamesJournal_magazine(raw) ==
    In("Journal", raw) \/ In("Review", raw) \/ In("Magazine", raw)

\* "Journal" in raw_text or "Review" in raw_text
NamesJournal(raw) == In("Journal", raw) \/ In("Review", raw)

\* parsed["type"]: "book", set to "web" by a URL, then to "article"
ParsedType(raw, url_match) ==
    IF NamesJournal(raw) THEN "article"
    ELSE IF url_match # None THEN "web"
    ELSE "book"

\* f"{pages_match.group(1)}-{pages_match.group(2)}"
ParsedPages(raw) ==
    LET pages_match == PagesSearch(raw, 1)
    IN  IF pages_match = <<>> THEN None
        ELSE Some(pages_match[1] \o "-" \o pages_match[2])

parse_reference_text(raw) ==
    LET volume_match == VolumeSearch(raw, 1)
        url_match    == UrlSearch(raw, 1)
    IN
    [authors   |-> FirstFive(AuthorFindall(AuthorSection(raw), 1)),
     year      |-> ParsedYear(raw),
     title     |-> ParsedTitle(raw),
     source    |-> IF NamesJournal(raw) THEN JournalSearch(raw, 1) ELSE None,
     type      |-> ParsedType(raw, url_match),
     doi       |-> DoiSearch(raw, 1),
     url       |-> url_match,
     publisher |-> None,
     volume    |-> IF volume_match = <<>> THEN None
                   ELSE Some(volume_match[1]),
     issue     |-> IF volume_match = <<>> THEN None
                   ELSE Some(volume_match[2]),
     pages     |-> ParsedPages(raw)]

\* the raw texts: an author part, a year part, a title part, a source
\* part, a volume and pages part and a DOI or URL part, each possibly empty
AuthorTexts ==
    {"", "Smith, J., & Jones, M. ", "Smith J, Jones M K ",
     "Adams A, Brown B, Clark C, Davis D, Evans E, Frank F. Gray G ",
     "Id12020 Adams A, Brown B, Clark C, Davis D, Evans E. Gray G Introduction "}

YearTexts == {"", "(2020). ", "(1999, May 5). ", "1850 "}

TitleTexts == {"", "Short. ", "Introduction to Psychology. "}

SourceTexts ==
    {"", "American Journal of Psychology, ", "Psychology Review Journal, ",
     "Time Magazine, ", "New York: Academic Press. "}

PageTexts == {"", "45(3), 123-145. ", "12 (4), 50 ~ 60. "}

DoiTexts ==
    {"", "https://doi.org/10.1234/example", "https://doi.org/10.1234/example.",
     "doi:10.12345/abc.def, 10.9999/second", "HTTP://Example.com/a 10.123/short"}

RawTexts ==
    {a \o y \o t \o so \o p \o d :
        a \in AuthorTexts, y \in YearTexts, t \in TitleTexts,
        so \in SourceTexts, p \in PageTexts, d \in DoiTexts}

InitParse ==
    /\ pc = "ready"
    /\ raw_text \in RawTexts
    /\ parsed = ParsedDefaults
    /\ citations = <<>>
    /\ references = <<>>
    /\ validation = NoValidation
    /\ parsed_ref = NoParsedRef
    /\ citation_out = ""
    /\ authors_in = <<>>
    /\ author_list_out = ""
    /\ IdleReference /\ IdleList
    /\ IdleOthers

ParseReferenceText ==
    /\ pc = "ready"
    /\ parsed' = parse_reference_text(raw_text)
    /\ pc' = "done"
    /\ UNCHANGED otherVars
    /\ UNCHANGED <<citations, references, validation, parsed_ref,
                   citation_out, authors_in, author_list_out,
                   referenceVars, listVars, raw_text>>

NextParse == ParseReferenceText

SpecParse == InitParse /\ [][NextParse]_vars

-----------------------------------------------------------------------------
(* Claims about parse_reference_text *)

\* the keys of the record that parse_reference_text returns
ParsedFields ==
    {"authors", "year", "title", "source", "type", "doi", "url",
     "publisher", "volume", "issue", "pages"}

\* C18: the parser returns, for every raw text, a record with the fixed
\* field set, and every field whose extraction step finds nothing has its
\* default: the empty list for authors, None for the optional fields,
\* "book" for type.
C18_DefaultsKept ==
    pc = "done" =>
        /\ DOMAIN parsed = ParsedFields
        /\ DoiSearch(raw_text, 1) = None => parsed.doi = None
        /\ UrlSearch(raw_text, 1) = None => parsed.url = None
        /\ YearSearch(raw_text, 1) = None
               => parsed.year = None /\ parsed.title = None
        /\ (YearSearch(raw_text, 1) # None /\ Len(TitleSection(raw_text)) <= 10)
               => parsed.title = None
        /\ AuthorFindall(AuthorSection(raw_text), 1) = <<>>
               => parsed.authors = <<>>
        /\ (~NamesJournal(raw_text) \/ JournalSearch(raw_text, 1) = None)
               => parsed.source = None
        /\ (~NamesJournal(raw_text) /\ UrlSearch(raw_text, 1) = None)
               => parsed.type = "book"
        /\ VolumeSearch(raw_text, 1) = <<>>
               => parsed.volume = None /\ parsed.issue = None
        /\ PagesSearch(raw_text, 1) = <<>> => parsed.pages = None
        /\ parsed.publisher = None

\* C18 witness: a text in which no step finds anything has been parsed to
\* the record of the defaults.
C18_Witness ==
    /\ pc = "done"
    /\ raw_text = "1850 Short. New York: Academic Press. "
    /\ parsed = ParsedDefaults

\* the reference of the end-to-end scenario, and its part up to the title
ArticleExample ==
    "Smith, J., & Jones, M. (2020). Introduction to Psychology. "
        \o "American Journal of Psychology, 45(3), 123-145. "
        \o "https://doi.org/10.1234/example"

ApaShapePrefix == "Smith, J., & Jones, M. (2020). Introduction to Psychology. "

\* C19: parsing the article of the end-to-end scenario yields at least one
\* author, year 2020, a title containing "Introduction", type article
\* and a doi containing "10.1234"; every text of the shape
\* "Authors (Year). Title. ..." yields a non-empty author list and a title
\* containing the text that follows the year.
C19_EndToEnd ==
    pc = "done" =>
        /\ StartsAt(raw_text, 1, ApaShapePrefix)
               => /\ parsed.authors # <<>>
                  /\ parsed.title # None
                  /\ Contains(parsed.title[1], "Introduction")
        /\ raw_text = ArticleExample
               => /\ parsed.year = Some(2020)
                  /\ parsed.type = "article"
                  /\ parsed.doi # None
                  /\ Contains(parsed.doi[1], "10.1234")

\* the characters i..e of s are "10.", at least four digits, "/" and a
\* run of non-space characters that ends with the text or before a space
DoiMatch(s, i, e) ==
    /\ StartsAt(s, i, "10.")
    /\ \E slash \in (i + 7)..(e - 1) :
           /\ \A k \in (i + 3)..(slash - 1) : Ch(s, k) \in DigitChars
           /\ Ch(s, slash) = "/"
           /\ \A k \in (slash + 1)..e : Ch(s, k) \notin SpaceChars
    /\ (e = Len(s) \/ Ch(s, e + 1) \in SpaceChars)

\* the start indices of the substrings of the raw text that match
DoiStarts ==
    {i \in 1..Len(raw_text) :
        /\ StartsAt(raw_text, i, "10.")
        /\ \E e \in i..Len(raw_text) : DoiMatch(raw_text, i, e)}

\* the first substring of the raw text that matches, None without one
FirstDoi ==
    IF DoiStarts = {} THEN None
    ELSE LET first == CHOOSE i \in DoiStarts : \A j \in DoiStarts : i <= j
             last  == CHOOSE e \in first..Len(raw_text) :
                          DoiMatch(raw_text, first, e)
         IN  Some(SubSeq(raw_text, first, last))

DoiUrl == "https://doi.org/10.1234/example"

\* C20 as stated: doi is the first matching substring, None without one,
\* and every text containing https://doi.org/10.1234/example gives the
\* doi "10.1234/example".
C20_Original ==
    pc = "done" =>
        /\ parsed.doi = FirstDoi
        /\ In(DoiUrl, raw_text) => parsed.doi = Some("10.1234/example")

\* C20: doi is, verbatim, the first substring of the raw text that matches
\* "10.", at least four digits, "/" and a run of non-space characters, and
\* None without one; a text in which https://doi.org/10.1234/example holds
\* the first match and is followed by a space or by the end of the text
\* gives the doi "10.1234/example".
C20_DoiVerbatim ==
    pc = "done" =>
        /\ parsed.doi = FirstDoi
        /\ LET url_pos == FindFrom(raw_text, DoiUrl, 1)
               url_end == url_pos + Len(DoiUrl)
           IN  (/\ url_pos # 0
                /\ \A i \in DoiStarts : i >= url_pos + 16
                /\ (url_end > Len(raw_text)
                        \/ Ch(raw_text, url_end) \in SpaceChars))
                   => parsed.doi = Some("10.1234/example")

\* C20 witness: of two DOIs the first has been stored, with the comma
\* that follows it.
C20_Witness ==
    /\ pc = "done"
    /\ raw_text = "doi:10.12345/abc.def, 10.9999/second"
    /\ parsed.doi = Some("10.12345/abc.def,")

\* C24: the type is article exactly when the raw text contains "Journal" or
\* "Review", whether or not a URL was found; otherwise it is web exactly
\* when a URL was found; otherwise it is book.  No other type is produced.
C24_TypeDecision ==
    pc = "done" =>
        LET names_journal == Contains(raw_text, "Journal")
                                 \/ Contains(raw_text, "Review")
        IN  /\ parsed.type \in {"article", "web", "book"}
            /\ parsed.type = "article" <=> names_journal
            /\ ~names_journal => (parsed.type = "web" <=> parsed.url # None)

\* C24 witness: a text with a URL that names a review has been parsed to
\* an article.
C24_Witness ==
    /\ pc = "done"
    /\ raw_text = "Psychology Review Journal, https://doi.org/10.1234/example"
    /\ parsed.url = Some("https://doi.org/10.1234/example")
    /\ parsed.type = "article"

\* the indices at which the year expression matches the raw text
YearStarts == {j \in 1..Len(raw_text) : YearAt(raw_text, j)}

\* the text that precedes the year matched by the year step, the whole
\* text without a year
TextBeforeMatchedYear ==
    IF YearStarts = {} THEN raw_text
    ELSE SubSeq(raw_text, 1, Leftmost(YearStarts) - 1)

\* text up to its first ".", the whole text without one
UpToFirstDot(text) ==
    LET dots == {j \in 1..Len(text) : Ch(text, j) = "."}
    IN  IF dots = {} THEN text ELSE SubSeq(text, 1, Leftmost(dots) - 1)

\* C25: authors holds the matches of the author expression, in order of
\* appearance and at most 5 of them, in the text that precedes the year
\* matched by the year step (the whole text without a year), cut at its
\* first ".".
C25_AuthorsBeforeYear ==
    pc = "done" =>
        /\ Len(parsed.authors) <= 5
        /\ parsed.authors
               = FirstFive(AuthorFindall(UpToFirstDot(TextBeforeMatchedYear), 1))

\* the end of the author prefix: the length of the text before the
\* matched year cut at its first "."
AuthorPrefixEnd == Len(UpToFirstDot(TextBeforeMatchedYear))

\* the text strictly between the author prefix and the start of the
\* matched year, without its leading punctuation and its outer whitespace
TitleBetween ==
    StripLeadingPunctuation(
        Strip(SubSeq(raw_text, AuthorPrefixEnd + 1, Leftmost(YearStarts) - 1)))

\* C26: title is set only when a year was found; it is then the text
\* between the end of the author prefix and the start of the year,
\* stripped, when that text is longer than 10 characters; in every other
\* case title is None.
C26_TitleBetween ==
    pc = "done" =>
        parsed.title = IF YearStarts # {} /\ Len(TitleBetween) > 10
                       THEN Some(TitleBetween)
                       ELSE None

\* ---------------------------------------------------------------------------
\* C27: pages of a text that holds two integers separated by a hyphen or by
\* an en dash
\* ---------------------------------------------------------------------------

\* the separators the claim names: ASCII hyphen and en dash
HyphenOrEnDash == {"-", EnDash}

\* two integers separated by a hyphen or an en dash, optionally surrounded
\* by spaces, start at i: <<start, end>>, or <<>>
DashedPairAt(s, i) ==
    LET first_end == RunEnd(s, i, DigitChars)
        separator == RunEnd(s, first_end, SpaceChars)
        second    == RunEnd(s, separator + 1, SpaceChars)
        last_end  == RunEnd(s, second, DigitChars)
    IN  IF first_end > i /\ separator <= Len(s)
               /\ Ch(s, separator) \in HyphenOrEnDash /\ last_end > second
        THEN <<SubSeq(s, i, first_end - 1), SubSeq(s, second, last_end - 1)>>
        ELSE <<>>

DashedPairStarts == {j \in 1..Len(raw_text) : DashedPairAt(raw_text, j) # <<>>}

\* C27: when the raw text contains two integers separated by an ASCII hyphen
\* or by an en dash, optionally surrounded by spaces, pages is
\* "<start>-<end>" with an ASCII hyphen, taken from the first such
\* occurrence; "45(3), 123-145." gives pages "123-145", volume "45" and
\* issue "3".
C27_PagesHyphenOrEnDash ==
    pc = "done" =>
        /\ DashedPairStarts # {} =>
               LET pair == DashedPairAt(raw_text, Leftmost(DashedPairStarts))
               IN  parsed.pages = Some(pair[1] \o "-" \o pair[2])
        /\ Contains(raw_text, "45(3), 123-145.") =>
               /\ parsed.pages = Some("123-145")
               /\ parsed.volume = Some("45")
               /\ parsed.issue = Some("3")

-----------------------------------------------------------------------------
(* validate_coherence on one citation and one reference that carry the     *)
(* same key and the same year and one author name each: the comparison of  *)
(* lines 249-254 then rests on _normalize_author alone.                    *)

NamesCompared ==
    {"Smith, J.", "SMITH  J", "smith j", " Smith\tJ ", "Smith_J", "SmithJ",
     "_Smith J_", "Smith-Jones, A.", "SmithJones A", "smith jones a",
     "Jones, M.", "jones m", "Smith & (J)"}

InitNormalize ==
    /\ pc = "ready"
    /\ IdleReference /\ IdleList /\ IdleParse
    /\ IdleOthers
    /\ \E a \in NamesCompared, b \in NamesCompared :
           /\ citations =
                  <<[citation_key |-> Some("[Smith, 2020]"),
                     citation_text |-> "Smith (2020) states...",
                     parsed |-> [authors |-> <<a>>, year |-> Some(2020)]]>>
           /\ references =
                  <<[ref_key |-> Some("[Smith, 2020]"),
                     ref_text |-> "Smith, J. (2020). Example book.",
                     parsed |-> [authors |-> <<b>>, year |-> Some(2020)]]>>
    /\ validation = NoValidation
    /\ parsed_ref = NoParsedRef
    /\ citation_out = ""
    /\ authors_in = <<>>
    /\ author_list_out = ""

SpecNormalize == InitNormalize /\ [][NextCoherence]_vars

\* the normalization as the claim words it: lowercase, drop every character
\* that is neither a letter, a digit nor whitespace, collapse whitespace
RECURSIVE KeepAlphanumericAndSpace(_)
KeepAlphanumericAndSpace(s) ==
    IF s = "" THEN ""
    ELSE IF Head(s) \in UpperChars \cup LowerChars \cup DigitChars \cup SpaceChars
         THEN Head(s) \o KeepAlphanumericAndSpace(Tail(s))
         ELSE KeepAlphanumericAndSpace(Tail(s))

AlphanumericForm(name) ==
    Strip(CollapseWhitespace(KeepAlphanumericAndSpace(Lower(name))))

CitedName == citations[1].parsed.authors[1]
ListedName == references[1].parsed.authors[1]

\* C28: the normalization lowercases a name, removes every character that is
\* neither alphanumeric nor a space and collapses whitespace runs; two names
\* that differ only in case, in non-alphanumeric characters (underscores
\* included) or in spacing normalize to the same string and give no
\* imperfect match; normalizing a normalized name changes nothing.
C28_NormalizationClasses ==
    pc = "done" =>
        /\ _normalize_author(CitedName) = AlphanumericForm(CitedName)
        /\ AlphanumericForm(CitedName) = AlphanumericForm(ListedName) =>
               /\ _normalize_author(CitedName) = _normalize_author(ListedName)
               /\ validation.imperfect_matches = <<>>
        /\ _normalize_author(_normalize_author(CitedName))
               = _normalize_author(CitedName)

-----------------------------------------------------------------------------
(* validate_coherence on records without a usable key: the key is absent   *)
(* from the dict, None or the empty string.                                *)

UnusableKeys == {Missing, None, Some("")}

UnkeyedCitationText == "An uncited remark (n.d.)"
UnkeyedReferenceText == "Anonymous. (n.d.). Untitled."

UnkeyedCitations ==
    {[citation_key |-> k, citation_text |-> UnkeyedCitationText,
      parsed |-> [authors |-> <<"Smith, J.">>, year |-> Some(2020)]] :
        k \in UnusableKeys}

UnkeyedReferences ==
    {[ref_key |-> k, ref_text |-> UnkeyedReferenceText,
      parsed |-> [authors |-> <<"Jones, M.">>, year |-> None]] :
        k \in UnusableKeys}

KeyedCitations == {c \in CitationDicts : c.citation_key # Some("")}
KeyedReferences == {r \in ReferenceDicts : r.ref_key # Some("")}

InitUnkeyed ==
    /\ pc = "ready"
    /\ IdleReference /\ IdleList /\ IdleParse
    /\ IdleOthers
    /\ citations \in SeqsUpTo(KeyedCitations \cup UnkeyedCitations, MaxCitations)
    /\ references \in SeqsUpTo(KeyedReferences \cup UnkeyedReferences, MaxReferences)
    /\ validation = NoValidation
    /\ parsed_ref = NoParsedRef
    /\ citation_out = ""
    /\ authors_in = <<>>
    /\ author_list_out = ""

SpecUnkeyed == InitUnkeyed /\ [][NextCoherence]_vars

\* the records of an input list that carry a usable key, in their order
Keyed(records, field) ==
    LET Usable(record) == record[field] \notin UnusableKeys
    IN  SelectSeq(records, Usable)

\* the texts and keys that the findings of the result show
FindingTexts ==
    {validation.citations_without_reference[i].citation_text :
        i \in 1..Len(validation.citations_without_reference)}
    \cup {validation.references_without_citations[i].ref_text :
        i \in 1..Len(validation.references_without_citations)}

FindingKeys ==
    {validation.citations_without_reference[i].citation_key :
        i \in 1..Len(validation.citations_without_reference)}
    \cup {validation.references_without_citations[i].ref_key :
        i \in 1..Len(validation.references_without_citations)}
    \cup {validation.imperfect_matches[i].citation_key :
        i \in 1..Len(validation.imperfect_matches)}
    \cup {validation.imperfect_matches[i].ref_key :
        i \in 1..Len(validation.imperfect_matches)}

\* C29: a citation whose citation_key is missing, None or "" and a reference
\* whose ref_key is missing, None or "" appear in none of the three result
\* lists, and the result is the one the other records give without them.
C29_UnkeyedIgnored ==
    pc = "done" =>
        /\ validation = validate_coherence(Keyed(citations, "citation_key"),
                                           Keyed(references, "ref_key"))
        /\ FindingTexts \cap {UnkeyedCitationText, UnkeyedReferenceText} = {}
        /\ FindingKeys \cap {"", "KeyError"} = {}

\* an unkeyed citation and an unkeyed reference stand beside an orphan
\* citation, which is the only finding
C29_Witness ==
    /\ pc = "done"
    /\ Len(citations) = 2 /\ Len(references) = 1
    /\ citations[1].citation_key = Missing
    /\ citations[2].citation_key = Some("[Smith, 2020]")
    /\ references[1].ref_key = Some("")
    /\ Len(validation.citations_without_reference) = 1
    /\ validation.references_without_citations = <<>>
    /\ validation.imperfect_matches = <<>>

-----------------------------------------------------------------------------
(* C30: the three result lists share no key and repeat no key *)

\* the keys of the findings of one result list
ListKeys(list, field) == {list[i][field] : i \in 1..Len(list)}

\* no two findings of a result list carry the same key
NoRepeatedKey(list, field) ==
    \A i, j \in 1..Len(list) : list[i][field] = list[j][field] => i = j

OrphanCitationKeys ==
    ListKeys(validation.citations_without_reference, "citation_key")
OrphanReferenceKeys ==
    ListKeys(validation.references_without_citations, "ref_key")
ImperfectKeys ==
    ListKeys(validation.imperfect_matches, "citation_key")
        \cup ListKeys(validation.imperfect_matches, "ref_key")

\* C30: in every result no key occurs twice within a list, no key occurs in
\* two of the three lists, and the number of findings does not exceed the
\* number of distinct non-empty keys of the input.
C30_KeyDisjoint ==
    pc = "done" =>
        /\ NoRepeatedKey(validation.citations_without_reference, "citation_key")
        /\ NoRepeatedKey(validation.references_without_citations, "ref_key")
        /\ NoRepeatedKey(validation.imperfect_matches, "citation_key")
        /\ OrphanCitationKeys \cap ImperfectKeys = {}
        /\ OrphanReferenceKeys \cap ImperfectKeys = {}
        /\ OrphanCitationKeys \cap OrphanReferenceKeys = {}
        /\ Len(validation.citations_without_reference)
               + Len(validation.references_without_citations)
               + Len(validation.imperfect_matches)
           <= Cardinality(KeysOf(citations, "citation_key")
                              \cup KeysOf(references, "ref_key"))

\* two citations repeat one key that the references lack, and the one
\* reference is cited nowhere: one finding for each of the two keys
C30_Witness ==
    /\ pc = "done"
    /\ Len(citations) = 2 /\ Len(references) = 1
    /\ citations[1].citation_key = Some("[Smith, 2020]")
    /\ citations[2].citation_key = Some("[Smith, 2020]")
    /\ references[1].ref_key = Some("[Jones, 2019]")
    /\ OrphanCitationKeys = {"[Smith, 2020]"}
    /\ Len(validation.citations_without_reference) = 1
    /\ OrphanReferenceKeys = {"[Jones, 2019]"}
    /\ validation.imperfect_matches = <<>>

-----------------------------------------------------------------------------
(* The Celery task export_document of backend/app/tasks/export_tasks.py.   *)
(* The job row shows the committed values; every assignment to the row in  *)
(* the task is followed by db.commit() and forms one step with it.         *)

\* the engine variables while no engine operation runs
IdleEngine ==
    /\ pc = "ready"
    /\ citations = <<>> /\ references = <<>> /\ validation = NoValidation
    /\ parsed_ref = NoParsedRef /\ citation_out = ""
    /\ authors_in = <<>> /\ author_list_out = ""
    /\ IdleReference /\ IdleList /\ IdleParse

\* ExportJobStatus
QUEUED == "queued"
RUNNING == "running"
DONE == "done"
FAILED == "failed"

\* ExportJob.export_format: String(10), nullable
ExportFormats == {None, Some(""), Some("pdf"), Some("docx"), Some("PDF"), Some("txt")}

\* the names the body of export_document can read at line 126: its
\* parameters and the locals assigned on the way there, and the module globals
BoundNames ==
    {"self", "job_id", "db", "uuid", "job_uuid", "job", "document",
     "references", "document_data", "references_data", "options",
     "export_format", "filename", "result_filename",
     "logging", "Dict", "Any", "datetime", "celery_app", "SessionLocal",
     "Document", "Reference", "ExportJob", "ExportJobStatus",
     "export_service", "logger", "export_document"}

\* the names the return expression of lines 122-127 evaluates
ReturnNames == {"job_id", "filename", "file_path"}

\* getattr(job, "export_format", "pdf") or "pdf"
export_format == IF TruthyStr(job.export_format) THEN job.export_format[1] ELSE "pdf"

\* export_service.generate_filename(str(document.id), export_format)
generate_filename(format) == "document_1_20261105_120000." \o format

\* the ExportJob row the export endpoint stores before it queues the task
QueuedJob(found, format) ==
    [found |-> found, status |-> QUEUED, result_path |-> None,
     export_format |-> format, finished_at |-> None]

TaskAt(position) ==
    [pc |-> position, state |-> "PENDING", result |-> None, error |-> None]

InitExport ==
    /\ IdleEngine /\ IdleRound /\ IdleCallers
    /\ job_id_valid \in BOOLEAN
    /\ \E found \in BOOLEAN, format \in ExportFormats :
           job = QueuedJob(found, format)
    /\ document_found \in BOOLEAN
    /\ export_raises \in BOOLEAN
    /\ task = TaskAt("start")

\* the task touches no variable of the engine
EngineUnchanged ==
    UNCHANGED <<pc, citations, references, validation, parsed_ref,
                citation_out, authors_in, author_list_out, referenceVars,
                listVars, parseVars, roundVars, callerVars>>

\* lines 34-46: parse the id, fetch the job, commit RUNNING
StartTask ==
    /\ task.pc = "start"
    /\ IF job_id_valid /\ job.found
       THEN /\ job' = [job EXCEPT !.status = RUNNING]
            /\ task' = [task EXCEPT !.pc = "running"]
       ELSE /\ task' = [task EXCEPT !.pc = "outer_except", !.error = Some("ValueError")]
            /\ UNCHANGED job
    /\ UNCHANGED <<job_id_valid, document_found, export_raises>>
    /\ EngineUnchanged

\* lines 48-89: fetch the document and the references, build the arguments
LoadDocument ==
    /\ task.pc = "running"
    /\ task' = IF document_found
               THEN [task EXCEPT !.pc = "prepared"]
               ELSE [task EXCEPT !.pc = "outer_except", !.error = Some("ValueError")]
    /\ UNCHANGED <<job, job_id_valid, document_found, export_raises>>
    /\ EngineUnchanged

\* lines 92-109: render the file in the format of the job
ExportFile ==
    /\ task.pc = "prepared"
    /\ task' =
           IF Lower(export_format) \notin {"docx", "pdf"}
           THEN [task EXCEPT !.pc = "inner_except", !.error = Some("ValueError")]
           ELSE IF export_raises
                THEN [task EXCEPT !.pc = "inner_except", !.error = Some("RuntimeError")]
                ELSE [task EXCEPT !.pc = "exported"]
    /\ UNCHANGED <<job, job_id_valid, document_found, export_raises>>
    /\ EngineUnchanged

\* lines 112-119: commit DONE with the result path
CommitDone ==
    /\ task.pc = "exported"
    /\ job' = [job EXCEPT !.status = DONE,
                          !.result_path = Some(generate_filename(export_format)),
                          !.finished_at = Some("utcnow")]
    /\ task' = [task EXCEPT !.pc = "committed"]
    /\ UNCHANGED <<job_id_valid, document_found, export_raises>>
    /\ EngineUnchanged

\* lines 121-127: evaluate the returned dict; a name that is not bound
\* raises NameError inside the inner try
ReturnResult ==
    /\ task.pc = "committed"
    /\ task' =
           IF ReturnNames \subseteq BoundNames
           THEN [task EXCEPT !.pc = "finally", !.state = "SUCCESS",
                             !.result = Some([status |-> "completed",
                                              filename |-> generate_filename(export_format)])]
           ELSE [task EXCEPT !.pc = "inner_except", !.error = Some("NameError")]
    /\ UNCHANGED <<job, job_id_valid, document_found, export_raises>>
    /\ EngineUnchanged

\* lines 129-134: the handler of the inner try commits FAILED and re-raises
InnerExcept ==
    /\ task.pc = "inner_except"
    /\ job' = [job EXCEPT !.status = FAILED, !.finished_at = Some("now")]
    /\ task' = [task EXCEPT !.pc = "outer_except"]
    /\ UNCHANGED <<job_id_valid, document_found, export_raises>>
    /\ EngineUnchanged

\* lines 136-154: roll back, commit FAILED on the job if it can be fetched,
\* set the task state to FAILURE and re-raise
OuterExcept ==
    /\ task.pc = "outer_except"
    /\ job' = IF job_id_valid /\ job.found
              THEN [job EXCEPT !.status = FAILED, !.finished_at = Some("now")]
              ELSE job
    /\ task' = [task EXCEPT !.pc = "finally", !.state = "FAILURE"]
    /\ UNCHANGED <<job_id_valid, document_found, export_raises>>
    /\ EngineUnchanged

\* lines 156-157: db.close()
CloseSession ==
    /\ task.pc = "finally"
    /\ task' = [task EXCEPT !.pc = "ended"]
    /\ UNCHANGED <<job, job_id_valid, document_found, export_raises>>
    /\ EngineUnchanged

NextExport ==
    \/ StartTask
    \/ LoadDocument
    \/ ExportFile
    \/ CommitDone
    \/ ReturnResult
    \/ InnerExcept
    \/ OuterExcept
    \/ CloseSession

SpecExport == InitExport /\ [][NextExport]_vars

\* the job is one the claim covers: the row and the document exist, the
\* format is pdf or docx, rendering and storage succeed
Exportable ==
    /\ job_id_valid /\ job.found /\ document_found
    /\ Lower(export_format) \in {"pdf", "docx"}
    /\ ~export_raises

\* C23: the task on a queued job whose document exists, whose format is pdf
\* or docx and whose rendering and storage succeed moves the job
\* QUEUED -> RUNNING -> DONE: the job is never FAILED, and when the task
\* ends the status is DONE, result_path is set and the task has returned a
\* result with status "completed".
C23_ExportCompletes ==
    Exportable =>
        /\ job.status # FAILED
        /\ task.pc \in {"start"} => job.status = QUEUED
        /\ task.pc \in {"running", "prepared", "exported"} => job.status = RUNNING
        /\ task.pc = "ended" =>
               /\ job.status = DONE
               /\ job.result_path # None
               /\ task.result # None
               /\ task.result[1].status = "completed"

-----------------------------------------------------------------------------
(* Repeated round trips: parse_reference_text on one raw text, then        *)
(* generate_reference on the record it returned, while the date that       *)
(* datetime.now() gives moves on between the runs.                         *)

MaxRounds == 2

\* the dates of datetime.now(), in the order in which they come
Calendar == <<"November 05, 2026", "January 01, 2027">>

\* the dict of parse_reference_text as the argument of generate_reference:
\* its eleven keys are present, the other keys of the formatters are not
AsReference(p) ==
    [NoFields EXCEPT !.type = Some(p.type), !.authors = Some(p.authors),
                     !.year = p.year, !.title = p.title, !.source = p.source,
                     !.doi = p.doi, !.url = p.url, !.publisher = p.publisher,
                     !.volume = p.volume, !.issue = p.issue, !.pages = p.pages]

InitRound ==
    /\ pc = "ready"
    /\ citations = <<>> /\ references = <<>> /\ validation = NoValidation
    /\ parsed_ref = NoParsedRef /\ citation_out = ""
    /\ authors_in = <<>> /\ author_list_out = ""
    /\ IdleList /\ IdleCallers /\ IdleExport
    /\ raw_text \in RawTexts
    /\ parsed = ParsedDefaults
    /\ reference_in = NoFields
    /\ reference_out = ""
    /\ today = Calendar[1]
    /\ rounds = 0
    /\ previous_out = None

RoundUnchanged ==
    UNCHANGED <<citations, references, validation, parsed_ref, citation_out,
                authors_in, author_list_out, listVars, callerVars, exportVars>>

\* p = parse_reference_text(raw_text); generate_reference(p)
RoundTrip ==
    /\ rounds < MaxRounds
    /\ parsed' = parse_reference_text(raw_text)
    /\ reference_in' = AsReference(parsed')
    /\ reference_out' = generate_reference(reference_in', today)
    /\ previous_out' = IF rounds = 0 THEN None ELSE Some(reference_out)
    /\ rounds' = rounds + 1
    /\ pc' = "done"
    /\ UNCHANGED <<raw_text, today>>
    /\ RoundUnchanged

\* the clock reaches the next day
DayPasses ==
    /\ \E i \in 1..(Len(Calendar) - 1) :
           today = Calendar[i] /\ today' = Calendar[i + 1]
    /\ UNCHANGED <<pc, raw_text, parsed, reference_in, reference_out,
                   rounds, previous_out>>
    /\ RoundUnchanged

NextRound == RoundTrip \/ DayPasses

SpecRound == InitRound /\ [][NextRound]_vars

\* C21: parsing a raw text and generating the entry from the parsed record
\* yields the same string each time it is done: the output is a function of
\* the input arguments alone.
C21_SameEachTime ==
    previous_out # None => reference_out = previous_out[1]

-----------------------------------------------------------------------------
(* Concurrent callers of the module-level instance apa7_service.  A caller *)
(* enters one of the five operations with a reference to an argument       *)
(* object, which another caller may hold too, and returns later; other     *)
(* callers enter and return in between.  An operation works on locals      *)
(* (parsed, parts, formatted_refs, result) and assigns neither to its      *)
(* argument nor to an attribute of the instance.                           *)

MaxCallers == 2

Callers == 1..MaxCallers

Operations ==
    {"generate_citation", "generate_reference", "generate_reference_list",
     "parse_reference_text", "validate_coherence"}

\* a web page without year and retrieved date: its entry shows the date
WebPage ==
    [NoFields EXCEPT !.type = Some("web"), !.title = Some("Example Page"),
                     !.url = Some("https://example.com")]

\* the argument object that the callers of an operation pass
Argument(operation) ==
    CASE operation = "generate_citation" ->
             [parsed_ref |-> [authors |-> <<"Smith, J.", "K Lee">>,
                              year |-> Some(2020), citation_key |-> None]]
      [] operation = "generate_reference" -> [ref |-> WebPage]
      [] operation = "generate_reference_list" ->
             [references |-> <<WebPage, WebPage>>, format_output |-> "html"]
      [] operation = "parse_reference_text" -> [raw_text |-> ArticleExample]
      [] operation = "validate_coherence" ->
             [citations |->
                  <<[citation_key |-> Some("[Smith, 2020]"),
                     citation_text |-> "Smith (2020) states...",
                     parsed |-> [authors |-> <<"Smith, J.">>, year |-> Some(2020)]]>>,
              references |->
                  <<[ref_key |-> Some("[Smith, 2020]"),
                     ref_text |-> "Smith, J. (2019). Example book.",
                     parsed |-> [authors |-> <<"Smith, J.">>, year |-> Some(2019)]]>>]

\* the value an operation returns for an argument object on a date
Result(operation, argument, now) ==
    CASE operation = "generate_citation" ->
             [value |-> generate_citation(argument.parsed_ref)]
      [] operation = "generate_reference" ->
             [value |-> generate_reference(argument.ref, now)]
      [] operation = "generate_reference_list" ->
             [value |-> generate_reference_list(argument.references,
                                                argument.format_output, now)]
      [] operation = "parse_reference_text" ->
             [value |-> parse_reference_text(argument.raw_text)]
      [] operation = "validate_coherence" ->
             [value |-> validate_coherence(argument.citations,
                                           argument.references)]

\* the instance after a call that stores its result on self
InstanceAfter_caching(operation, attrs) == attrs \cup {"last_" \o operation}

\* the attributes of the instance after a call: no method assigns to self
InstanceAfter(operation, attrs) == attrs

\* the argument object after a call: no method assigns to its argument
ArgumentAfter(operation, argument) == argument

InitCallers ==
    /\ pc = "ready"
    /\ citations = <<>> /\ references = <<>> /\ validation = NoValidation
    /\ parsed_ref = NoParsedRef /\ citation_out = ""
    /\ authors_in = <<>> /\ author_list_out = ""
    /\ reference_in = NoFields /\ reference_out = ""
    /\ today = Calendar[1]
    /\ IdleList /\ IdleParse /\ IdleRound /\ IdleExport
    /\ caller_pc = [t \in Callers |-> "idle"]
    /\ caller_call = [t \in Callers |-> None]
    /\ caller_today = [t \in Callers |-> None]
    /\ caller_result = [t \in Callers |-> None]
    /\ shared_inputs = [operation \in Operations |-> Argument(operation)]
    /\ instance_attrs = {}

CallersUnchanged ==
    UNCHANGED <<pc, citations, references, validation, parsed_ref,
                citation_out, authors_in, author_list_out, referenceVars,
                listVars, parseVars, roundVars, exportVars>>

\* a caller enters an operation; the date is the one the call reads
Enter(t) ==
    /\ caller_pc[t] = "idle"
    /\ \E operation \in Operations :
           caller_call' = [caller_call EXCEPT ![t] = Some(operation)]
    /\ caller_today' = [caller_today EXCEPT ![t] = Some(today)]
    /\ caller_pc' = [caller_pc EXCEPT ![t] = "running"]
    /\ UNCHANGED <<caller_result, shared_inputs, instance_attrs>>
    /\ CallersUnchanged

\* the operation runs on the argument object as it is and returns
Return(t) ==
    /\ caller_pc[t] = "running"
    /\ LET operation == caller_call[t][1]
       IN  /\ caller_result' =
                  [caller_result EXCEPT ![t] =
                      Some(Result(operation, shared_inputs[operation],
                                  caller_today[t][1]))]
           /\ shared_inputs' =
                  [shared_inputs EXCEPT ![operation] =
                      ArgumentAfter(operation, @)]
           /\ instance_attrs' = InstanceAfter(operation, instance_attrs)
    /\ caller_pc' = [caller_pc EXCEPT ![t] = "returned"]
    /\ UNCHANGED <<caller_call, caller_today>>
    /\ CallersUnchanged

NextCallers ==
    \/ \E t \in Callers : Enter(t)
    \/ \E t \in Callers : Return(t)
    \/ DayPasses

SpecCallers == InitCallers /\ [][NextCallers]_vars

====
